---- MODULE Spec2Model ----
(***************************************************************************)
(* A model of the libhif / hawkey core: the sack's considered set, the     *)
(* query engine (hy-query.c) and the goal engine (hy-goal.c).              *)
(*                                                                         *)
(* Bitmaps (Map) are sets of solvable ids, queues are sequences, a NULL    *)
(* pointer is a has_* flag beside the value, and a cmp_type bitmask is the *)
(* set of the flag names that are set in it.                               *)
(***************************************************************************)
EXTENDS Integers, Sequences, FiniteSets, TLC

VARIABLES
    queries,        \* HyQuery objects: slot -> struct _HyQuery
    pkg_excludes,   \* the sack's excludes packageset
    pkg_includes,   \* the sack's includes packageset
    considered,     \* pool->considered: [set |-> BOOLEAN, map |-> bitmap]
    considered_uptodate,
    crashed,        \* the process dereferenced a NULL pointer and was killed
    goal,           \* the HyGoal object: struct _HyGoal
    run,            \* the hy_goal_run_all_flags call: where it is, its job queue
    gsack,          \* the goal's sack: install-only names and limit, running kernel
    staged_call,    \* the last filter staging call whose return value was kept
    result_map,     \* where the clones are followed: slot -> address of the Map
                    \* that q->result points to, 0 for NULL
    sltr_call,      \* the last selector staging call and what it returned
    txn,            \* the HifTransaction driver: its private data, the rpm
                    \* transaction set, the lock, the stores it writes to
    poss,           \* the HyPossibilities iterator over a subject and what its
                    \* last call returned
    py              \* the Python sack binding: the holder of the interpreter
                    \* lock and where each thread is in its sack method

vars == <<queries, pkg_excludes, pkg_includes, considered, considered_uptodate,
          crashed, goal, run, gsack, staged_call, result_map, sltr_call, txn,
          poss, py>>

----------------------------------------------------------------------------
(* Bounds of the model.                                                    *)

\* the longest list of pending filters a query is given before it is applied
MaxFilters == 2

\* the same, where two queries are combined
MaxSetFilters == 1

\* the most jobs staged on a goal
MaxStaged == 1

\* the highest install-only limit of the sack
MaxLimit == 2

\* the most problems a failed solve reports
MaxProblems == 1

----------------------------------------------------------------------------
(* The pool: the solvables the sack was loaded with.  Id 1 is the system   *)
(* solvable; the others are packages.  Names, arches and dependency names  *)
(* are interned ids; an EVR is (epoch, version, release), epoch -1 when    *)
(* the EVR string carries none.                                            *)

Pkgs == {2, 3, 4, 5}

\* the packages of the repo the goal runs are made on: an install-only
\* package in three versions, the newest not installed, and one of another
\* name; all provide the install-only name 40
GoalPkgs == {6, 7, 8, 9}

\* the packages of the sack the advisory filters are run on: one package
\* that two repositories carry (12 and 13 have the same NEVRA) and another
AdvPkgs == {12, 13, 14}

Solvable ==
    [id \in Pkgs \cup GoalPkgs \cup AdvPkgs |->
        CASE id = 2 -> [name |-> 10, arch |-> 20, epoch |-> -1, version |-> 1,
                        release |-> 1, installed |-> TRUE,  requires |-> {}]
          [] id = 3 -> [name |-> 11, arch |-> 20, epoch |-> 0,  version |-> 1,
                        release |-> 1, installed |-> FALSE, requires |-> {30}]
          [] id = 4 -> [name |-> 10, arch |-> 21, epoch |-> 1,  version |-> 1,
                        release |-> 2, installed |-> FALSE, requires |-> {30}]
          [] id = 5 -> [name |-> 10, arch |-> 20, epoch |-> -1, version |-> 2,
                        release |-> 1, installed |-> FALSE, requires |-> {}]
          [] id = 6 -> [name |-> 12, arch |-> 20, epoch |-> -1, version |-> 1,
                        release |-> 1, installed |-> TRUE,  provides |-> {40, 46}]
          [] id = 7 -> [name |-> 12, arch |-> 20, epoch |-> -1, version |-> 2,
                        release |-> 1, installed |-> TRUE,  provides |-> {40, 47}]
          [] id = 8 -> [name |-> 12, arch |-> 20, epoch |-> -1, version |-> 3,
                        release |-> 1, installed |-> FALSE, provides |-> {40, 48}]
          [] id = 9 -> [name |-> 13, arch |-> 20, epoch |-> -1, version |-> 1,
                        release |-> 1, installed |-> TRUE,  provides |-> {40, 49}]
          [] id = 12 -> [name |-> 14, arch |-> 20, epoch |-> -1, version |-> 1,
                         release |-> 1, installed |-> FALSE, requires |-> {}]
          [] id = 13 -> [name |-> 14, arch |-> 20, epoch |-> -1, version |-> 1,
                         release |-> 1, installed |-> FALSE, requires |-> {}]
          [] id = 14 -> [name |-> 15, arch |-> 20, epoch |-> -1, version |-> 1,
                         release |-> 1, installed |-> FALSE, requires |-> {}]]

\* FOR_PKG_SOLVABLES: every solvable that is a package
PkgSolvables == Pkgs

\* pool_get_epoch: the parsed epoch of the EVR, an unsigned long; an epoch
\* that is absent is stored as -1, the highest unsigned value
pool_get_epoch(id) == Solvable[id].epoch

Sign(n) == IF n < 0 THEN -1 ELSE IF n > 0 THEN 1 ELSE 0

\* the epoch pool_evrcmp compares: by the RPM rules an EVR without epoch
\* compares as epoch 0
EvrEpoch(id) == IF Solvable[id].epoch < 0 THEN 0 ELSE Solvable[id].epoch

\* pool_evrcmp(EVRCMP_COMPARE) of the EVRs of two solvables
pool_evrcmp(a, b) ==
    IF EvrEpoch(a) # EvrEpoch(b)
    THEN Sign(EvrEpoch(a) - EvrEpoch(b))
    ELSE IF Solvable[a].version # Solvable[b].version
    THEN Sign(Solvable[a].version - Solvable[b].version)
    ELSE Sign(Solvable[a].release - Solvable[b].release)

----------------------------------------------------------------------------
(* The sack's considered set.                                              *)

\* considered = (all_packages - excludes) /\ (includes-or-all)
ConsideredOf(excl, incl) ==
    (Pkgs \ excl) \cap (IF incl = {} THEN Pkgs ELSE incl)

\* dnf_sack_recompute_considered: lazy and idempotent; pool->considered stays
\* NULL while neither excludes nor includes were ever set
RecomputeConsidered(c, uptodate, excl, incl) ==
    IF uptodate THEN c
    ELSE IF ~c.set /\ excl = {} /\ incl = {} THEN c
    ELSE [set |-> TRUE, map |-> ConsideredOf(excl, incl)]

----------------------------------------------------------------------------
(* Filters.                                                                *)

\* query_add_filter + the assignments of the staging function
Filter(keyname, cmp_type, match_type, matches) ==
    [keyname |-> keyname, cmp_type |-> cmp_type, match_type |-> match_type,
     matches |-> matches]

match_type_num(keyname) == keyname = "EPOCH"

match_type_pkg(keyname) == keyname \in {"PKG", "OBSOLETES"}

match_type_reldep(keyname) ==
    keyname \in {"CONFLICTS", "ENHANCES", "OBSOLETES", "PROVIDES", "RECOMMENDS",
                 "REQUIRES", "SUGGESTS", "SUPPLEMENTS"}

match_type_str(keyname) ==
    keyname \in {"ADVISORY", "ADVISORY_BUG", "ADVISORY_CVE", "ADVISORY_SEVERITY",
                 "ADVISORY_TYPE", "ARCH", "DESCRIPTION", "ENHANCES", "EVR", "FILE",
                 "LOCATION", "NAME", "NEVRA", "PROVIDES", "RECOMMENDS", "RELEASE",
                 "REPONAME", "REQUIRES", "SOURCERPM", "SUGGESTS", "SUMMARY",
                 "SUPPLEMENTS", "OBSOLETES", "CONFLICTS", "URL", "VERSION"}

valid_filter_str(keyname, cmp_type) ==
    /\ match_type_str(keyname)
    /\ keyname \in {"LOCATION", "SOURCERPM"} => (cmp_type \ {"NOT"}) = {"EQ"}

valid_filter_num(keyname, cmp_type) ==
    /\ match_type_num(keyname)
    /\ (cmp_type \ {"NOT"}) \cap {"ICASE", "SUBSTR", "GLOB"} = {}
    /\ keyname = "PKG" => (cmp_type \ {"NOT"}) = {"EQ"}

valid_filter_pkg(keyname, cmp_type) ==
    /\ match_type_pkg(keyname)
    /\ cmp_type = {"EQ"} \/ cmp_type = {"EQ", "NOT"}

valid_filter_reldep(keyname) == match_type_reldep(keyname)

\* the values of a filter's matches
MatchSet(f) == {f.matches[i] : i \in 1..Len(f.matches)}

\* the (evr, cmp_type) test shared by filter_epoch, filter_evr, filter_version
CmpHolds(cmp, cmp_type) ==
    \/ cmp > 0 /\ "GT" \in cmp_type
    \/ cmp < 0 /\ "LT" \in cmp_type
    \/ cmp = 0 /\ "EQ" \in cmp_type

\* filter_dataiterator over SOLVABLE_NAME / SOLVABLE_ARCH with SEARCH_STRING:
\* every solvable of the pool whose attribute equals one of the matches
filter_dataiterator(f) ==
    {id \in Pkgs :
        \E m \in MatchSet(f) :
            CASE f.keyname = "NAME" -> Solvable[id].name = m
              [] f.keyname = "ARCH" -> Solvable[id].arch = m
              [] OTHER -> FALSE}

\* filter_pkg: the map of the one packageset match
filter_pkg(f) == f.matches[1]

\* filter_all: leaves m empty
filter_all(f) == {}

\* the comparison of filter_epoch by signed values
EpochCmp_Signed(pkg_epoch, num) == Sign(pkg_epoch - num)

\* the comparison of filter_epoch: both sides are unsigned long, so a negative
\* value stands for itself plus 2^64, above every value that is not negative
EpochCmp(pkg_epoch, num) ==
    IF (pkg_epoch < 0) = (num < 0) THEN Sign(pkg_epoch - num)
    ELSE IF pkg_epoch < 0 THEN 1
    ELSE -1

\* filter_epoch: packages of the current result, compared by epoch
filter_epoch(result, f) ==
    {id \in result :
        \E m \in MatchSet(f) :
            CmpHolds(EpochCmp(pool_get_epoch(id), m), f.cmp_type)}

\* fnmatch of a version or release pattern: the pattern 0 stands for "*",
\* every other pattern has no wildcard and matches the string equal to it
fnmatch(pattern, str) == pattern = 0 \/ pattern = str

\* filter_version: packages of the current result by their version; a
\* cmp_type that is exactly GLOB matches with fnmatch, every other cmp_type
\* goes by the GT, LT and EQ bits on pool_evrcmp_str of "<version>-0"
filter_version(result, f) ==
    {id \in result :
        \E m \in MatchSet(f) :
            IF f.cmp_type = {"GLOB"} THEN fnmatch(m, Solvable[id].version)
            ELSE CmpHolds(Sign(Solvable[id].version - m), f.cmp_type)}

\* filter_release: the same on the release, compared as "0-<release>"
filter_release(result, f) ==
    {id \in result :
        \E m \in MatchSet(f) :
            IF f.cmp_type = {"GLOB"} THEN fnmatch(m, Solvable[id].release)
            ELSE CmpHolds(Sign(Solvable[id].release - m), f.cmp_type)}

\* filter_rco_reldep for REQUIRES: packages of the current result one of whose
\* requires matches one of the reldeps
filter_rco_reldep(result, f) ==
    {id \in result : \E m \in MatchSet(f) : m \in Solvable[id].requires}

\* the name, EVR and arch an advisory gives for the solvable id
AdvisoryPkg(id) ==
    [name |-> Solvable[id].name,
     evr |-> <<Solvable[id].epoch, Solvable[id].version, Solvable[id].release>>,
     arch |-> Solvable[id].arch]

\* the advisories of the pool in the order the dataiterator steps on them,
\* each with its id, its kind and its packages
Advisories ==
    << [id |-> 50, kind |-> 60, pkgs |-> <<AdvisoryPkg(12)>>],
       [id |-> 51, kind |-> 60, pkgs |-> <<AdvisoryPkg(12), AdvisoryPkg(14)>>],
       [id |-> 52, kind |-> 61, pkgs |-> <<AdvisoryPkg(14)>>] >>

\* the switch of filter_advisory: whether the advisory matches by the key
AdvisoryMatch(advisory, keyname, match) ==
    CASE keyname = "ADVISORY"      -> advisory.id = match
      [] keyname = "ADVISORY_TYPE" -> advisory.kind = match
      [] OTHER                     -> FALSE

\* dnf_advisorypkg_compare_solvable = 0: name, EVR and arch are those of
\* the solvable
dnf_advisorypkg_compare_solvable(apkg, id) == apkg = AdvisoryPkg(id)

\* the first loop of filter_advisory from advisory a, match mi on: the
\* packages of an advisory are added to pkgs once for each match that
\* matches it
RECURSIVE CollectAdvisoryPkgs(_, _, _)
CollectAdvisoryPkgs(f, a, mi) ==
    IF a > Len(Advisories) THEN <<>>
    ELSE IF mi > Len(f.matches) THEN CollectAdvisoryPkgs(f, a + 1, 1)
    ELSE (IF AdvisoryMatch(Advisories[a], f.keyname, f.matches[mi])
          THEN Advisories[a].pkgs ELSE <<>>)
         \o CollectAdvisoryPkgs(f, a, mi + 1)

\* g_ptr_array_remove_index
RemoveIndex(s, p) == SubSeq(s, 1, p - 1) \o SubSeq(s, p + 1, Len(s))

\* the second loop of filter_advisory over the ids that are left of the
\* result, in rising order: it ends when pkgs is empty; the first entry of
\* pkgs that compares equal to the solvable sets its bit in m and is
\* removed from pkgs
RECURSIVE ConvertNevras(_, _, _)
ConvertNevras(ids, pkgs, m) ==
    IF ids = {} \/ pkgs = <<>> THEN m
    ELSE LET id == CHOOSE i \in ids : \A j \in ids : i <= j
             hits == {p \in 1..Len(pkgs) : dnf_advisorypkg_compare_solvable(pkgs[p], id)}
         IN  IF hits = {} THEN ConvertNevras(ids \ {id}, pkgs, m)
             ELSE ConvertNevras(ids \ {id},
                                RemoveIndex(pkgs, CHOOSE p \in hits :
                                                      \A r \in hits : p <= r),
                                m \cup {id})

\* filter_advisory
filter_advisory(result, f) == ConvertNevras(result, CollectAdvisoryPkgs(f, 1, 1), {})

\* the keyname switch of hy_query_apply: the filter's match map m
FilterMap(result, f) ==
    CASE f.keyname = "PKG"      -> filter_pkg(f)
      [] f.keyname = "ALL"      -> filter_all(f)
      [] f.keyname = "EPOCH"    -> filter_epoch(result, f)
      [] f.keyname = "VERSION"  -> filter_version(result, f)
      [] f.keyname = "RELEASE"  -> filter_release(result, f)
      [] f.keyname = "REQUIRES" -> filter_rco_reldep(result, f)
      [] f.keyname \in {"ADVISORY", "ADVISORY_BUG", "ADVISORY_CVE",
                         "ADVISORY_SEVERITY", "ADVISORY_TYPE"}
                                -> filter_advisory(result, f)
      [] OTHER                  -> filter_dataiterator(f)

----------------------------------------------------------------------------
(* Modifiers: updates / downgrades / latest.                               *)

\* what_upgrades: the installed package of the same name and arch with the
\* highest EVR that p would upgrade, 0 when an installed one is not older
what_upgrades(p) ==
    LET inst == {u \in Pkgs : /\ Solvable[u].installed
                              /\ Solvable[u].name = Solvable[p].name
                              /\ Solvable[u].arch = Solvable[p].arch}
    IN  IF inst = {} \/ \E u \in inst : pool_evrcmp(u, p) >= 0 THEN 0
        ELSE CHOOSE u \in inst : \A w \in inst : pool_evrcmp(u, w) >= 0

\* what_downgrades: the installed package p would downgrade, 0 when none
what_downgrades(p) ==
    LET inst == {u \in Pkgs : /\ Solvable[u].installed
                              /\ Solvable[u].name = Solvable[p].name
                              /\ Solvable[u].arch = Solvable[p].arch}
    IN  IF inst = {} \/ \E u \in inst : pool_evrcmp(u, p) <= 0 THEN 0
        ELSE CHOOSE u \in inst : \A w \in inst : pool_evrcmp(u, w) <= 0

\* filter_updown: the non-installed packages of res that upgrade (downgrade)
\* an installed package
filter_updown(downgrade, res) ==
    {i \in res : /\ ~Solvable[i].installed
                 /\ IF downgrade THEN what_downgrades(i) > 0
                                 ELSE what_upgrades(i) > 0}

\* filter_updown_able: the packages of res that some non-installed package
\* upgrades (downgrades)
filter_updown_able(downgradable, res) ==
    {w \in res :
        \E p \in PkgSolvables :
            /\ ~Solvable[p].installed
            /\ w = (IF downgradable THEN what_downgrades(p) ELSE what_upgrades(p))}

\* filter_latest_sortcmp: sa and sb are both taken from ap, so the name
\* difference is always 0 and the order is the one of the ids
filter_latest_sortcmp(a, b) ==
    LET sa == Solvable[a]
        sb == Solvable[a]
    IN  IF sa.name - sb.name # 0 THEN sa.name - sb.name ELSE a - b

\* the same comparison without the arch
filter_latest_sortcmp_byarch_NoArch(a, b) ==
    IF Solvable[a].name - Solvable[b].name # 0
    THEN Solvable[a].name - Solvable[b].name ELSE a - b

filter_latest_sortcmp_byarch(a, b) ==
    LET sa == Solvable[a]
        sb == Solvable[b]
    IN  IF sa.name - sb.name # 0 THEN sa.name - sb.name
        ELSE IF sa.arch - sb.arch # 0 THEN sa.arch - sb.arch
        ELSE a - b

\* solv_sort of the ids of S with one of the two comparators above (both are
\* strict total orders on distinct ids: the smallest element comes first)
RECURSIVE SortLatest(_, _)
SortLatest(S, byarch) ==
    IF S = {} THEN <<>>
    ELSE LET cmp(a, b) == IF byarch THEN filter_latest_sortcmp_byarch(a, b)
                                    ELSE filter_latest_sortcmp(a, b)
             least == CHOOSE a \in S : \A b \in S \ {a} : cmp(a, b) < 0
         IN  <<least>> \o SortLatest(S \ {least}, byarch)

\* the block scan of filter_latest over the sorted queue, from index i, with
\* hp the highest package of the current block (0 before the first)
RECURSIVE LatestScan(_, _, _, _, _)
LatestScan(samename, i, hp, res, per_arch) ==
    IF i > Len(samename) THEN res
    ELSE LET p == samename[i]
         IN  IF \/ hp = 0
                \/ Solvable[hp].name # Solvable[p].name
                \/ per_arch /\ Solvable[hp].arch # Solvable[p].arch
             THEN LatestScan(samename, i + 1, p, res, per_arch)
             ELSE IF pool_evrcmp(hp, p) < 0
             THEN LatestScan(samename, i + 1, p, res \ {hp}, per_arch)
             ELSE LatestScan(samename, i + 1, hp, res \ {p}, per_arch)

filter_latest(res, per_arch) ==
    IF Cardinality(res) < 2 THEN res
    ELSE LatestScan(SortLatest(res, per_arch), 1, 0, res, per_arch)

----------------------------------------------------------------------------
(* Queries.                                                                *)

QueryIds == {1, 2}

\* hy_query_create_flags: g_malloc0 and the two assignments
hy_query_create_flags(flags) ==
    [flags |-> flags, applied |-> FALSE, has_result |-> FALSE, result |-> {},
     filters |-> <<>>, downgradable |-> FALSE, downgrades |-> FALSE,
     updatable |-> FALSE, updates |-> FALSE, latest |-> FALSE,
     latest_per_arch |-> FALSE]

\* clear_filters
clear_filters(q) ==
    [q EXCEPT !.filters = <<>>, !.downgradable = FALSE, !.downgrades = FALSE,
              !.updatable = FALSE, !.updates = FALSE, !.latest = FALSE,
              !.latest_per_arch = FALSE]

\* init_result without the map_and with pool->considered
init_result_NoConsidered(q, c) == PkgSolvables

\* init_result: all package solvables, and-ed with pool->considered (c, after
\* the recompute) unless the query ignores excludes
init_result(q, c) ==
    IF "IGNORE_EXCLUDES" \notin q.flags /\ c.set
    THEN PkgSolvables \cap c.map
    ELSE PkgSolvables

\* the filter loop with map_and taken for every filter, NOT or not
RECURSIVE ApplyFilters_NoNot(_, _, _)
ApplyFilters_NoNot(result, filters, i) ==
    IF i > Len(filters) THEN result
    ELSE ApplyFilters_NoNot(result \cap FilterMap(result, filters[i]),
                            filters, i + 1)

\* the filter loop of hy_query_apply from filter i on
RECURSIVE ApplyFilters(_, _, _)
ApplyFilters(result, filters, i) ==
    IF i > Len(filters) THEN result
    ELSE LET f == filters[i]
             m == FilterMap(result, f)
         IN  ApplyFilters(IF "NOT" \in f.cmp_type THEN result \ m
                                                  ELSE result \cap m,
                          filters, i + 1)

\* the modifiers of hy_query_apply, in the order of the code
ApplyDowngradable(q, result) ==
    IF q.downgradable THEN filter_updown_able(TRUE, result) ELSE result

ApplyDowngrades(q, result) ==
    IF q.downgrades THEN filter_updown(TRUE, result) ELSE result

ApplyUpdatable(q, result) ==
    IF q.updatable THEN filter_updown_able(FALSE, result) ELSE result

ApplyUpdates(q, result) ==
    IF q.updates THEN filter_updown(FALSE, result) ELSE result

ApplyLatest(q, result) ==
    IF q.latest THEN filter_latest(result, q.latest_per_arch) ELSE result

ApplyModifiers(q, result) ==
    ApplyLatest(q, ApplyUpdates(q, ApplyUpdatable(q,
        ApplyDowngrades(q, ApplyDowngradable(q, result)))))

\* hy_query_apply, given pool->considered as init_result leaves it
hy_query_apply(q, c) ==
    IF q.applied THEN q
    ELSE LET r0 == IF q.has_result THEN q.result ELSE init_result(q, c)
             r1 == ApplyFilters(r0, q.filters, 1)
         IN  clear_filters([q EXCEPT !.has_result = TRUE,
                                     !.result = ApplyModifiers(q, r1),
                                     !.applied = TRUE])

\* whether hy_query_apply(q) reaches dnf_sack_recompute_considered
Recomputes(q) ==
    ~q.applied /\ ~q.has_result /\ "IGNORE_EXCLUDES" \notin q.flags

\* pool->considered and considered_uptodate after hy_query_apply(q)
ConsideredAfter(q, c, uptodate) ==
    IF Recomputes(q)
    THEN RecomputeConsidered(c, uptodate, pkg_excludes, pkg_includes)
    ELSE c

UptodateAfter(q, uptodate) == IF Recomputes(q) THEN TRUE ELSE uptodate

\* hy_query_clear
hy_query_clear(q) == clear_filters([q EXCEPT !.has_result = FALSE, !.result = {}])

\* hy_query_clone: a new query that is given the flags, the six modifiers
\* and applied, a copy of every filter (cmp_type, keyname, match_type and
\* each match: the number, a clone of the packageset, a reference to the
\* reldep, a copy of the string) and, if q has one, a clone of the result
hy_query_clone(q) ==
    [hy_query_create_flags({}) EXCEPT
        !.flags = q.flags,
        !.downgradable = q.downgradable,
        !.downgrades = q.downgrades,
        !.updatable = q.updatable,
        !.updates = q.updates,
        !.latest = q.latest,
        !.latest_per_arch = q.latest_per_arch,
        !.applied = q.applied,
        !.filters = [i \in 1..Len(q.filters) |->
                        Filter(q.filters[i].keyname, q.filters[i].cmp_type,
                               q.filters[i].match_type,
                               [j \in 1..Len(q.filters[i].matches) |->
                                   q.filters[i].matches[j]])],
        !.has_result = q.has_result,
        !.result = IF q.has_result THEN q.result ELSE {}]

\* hy_query_filter_empty: adds the ALL filter; applied is not touched
hy_query_filter_empty(q) ==
    [q EXCEPT !.filters = Append(@, Filter("ALL", {"EQ"}, "NUM", <<-1>>))]

\* hy_query_filter_reldep
hy_query_filter_reldep(q, keyname, reldep) ==
    IF ~valid_filter_reldep(keyname) THEN q
    ELSE [q EXCEPT !.applied = FALSE,
                   !.filters = Append(@, Filter(keyname, {"EQ"}, "RELDEP",
                                                <<reldep>>))]

\* hy_query_filter_reldep_in
hy_query_filter_reldep_in(q, keyname, reldeplist) ==
    IF ~valid_filter_reldep(keyname) THEN q
    ELSE [q EXCEPT !.applied = FALSE,
                   !.filters = Append(@, Filter(keyname, {"EQ"}, "RELDEP",
                                                reldeplist))]

\* the dependency names the pool knows, and the glob pattern 39 with the
\* names it matches
KnownDeps == {30, 31}

\* reldep_from_str: 0 (NULL) when the string does not parse to a known reldep
reldep_from_str(match) == IF match \in KnownDeps THEN match ELSE 0

\* reldeplist_from_str: the reldeps whose name matches the glob
reldeplist_from_str(match) == IF match = 39 THEN <<30, 31>> ELSE <<>>

\* hy_query_filter
hy_query_filter(q, keyname, cmp_type, match) ==
    IF ~valid_filter_str(keyname, cmp_type) THEN q
    ELSE LET q0 == [q EXCEPT !.applied = FALSE]
         IN  IF match_type_reldep(keyname)
             THEN IF cmp_type = {"GLOB"}
                  THEN hy_query_filter_reldep_in(q0, keyname,
                                                 reldeplist_from_str(match))
                  ELSE IF reldep_from_str(match) = 0
                  THEN hy_query_filter_empty(q0)
                  ELSE hy_query_filter_reldep(q0, keyname, reldep_from_str(match))
             ELSE [q0 EXCEPT !.filters =
                       Append(@, Filter(keyname, cmp_type, "STR", <<match>>))]

\* hy_query_filter_num
hy_query_filter_num(q, keyname, cmp_type, match) ==
    IF ~valid_filter_num(keyname, cmp_type) THEN q
    ELSE [q EXCEPT !.applied = FALSE,
                   !.filters = Append(@, Filter(keyname, cmp_type, "NUM",
                                                <<match>>))]

\* hy_query_filter_package_in
hy_query_filter_package_in(q, keyname, cmp_type, pset) ==
    IF ~valid_filter_pkg(keyname, cmp_type) THEN q
    ELSE [q EXCEPT !.applied = FALSE,
                   !.filters = Append(@, Filter(keyname, cmp_type, "PKG",
                                                <<pset>>))]

\* dnf_reldep_new: 0 (NULL) when the name is not in the pool
dnf_reldep_new(name) == IF name \in KnownDeps THEN name ELSE 0

\* hy_query_filter_requires: a reldep filter that keeps the caller's cmp_type
\* (with NOT), or the empty filter when the reldep cannot be made
hy_query_filter_requires(q, cmp_type, name) ==
    IF dnf_reldep_new(name) # 0
    THEN LET q1 == hy_query_filter_reldep(q, "REQUIRES", dnf_reldep_new(name))
             n  == Len(q1.filters)
         IN  [q1 EXCEPT !.filters[n].cmp_type = cmp_type]
    ELSE hy_query_filter_empty(q)

\* hy_query_filter_downgradable and the other modifier setters
hy_query_filter_downgradable(q, val) ==
    [q EXCEPT !.applied = FALSE, !.downgradable = val]

hy_query_filter_downgrades(q, val) ==
    [q EXCEPT !.applied = FALSE, !.downgrades = val]

hy_query_filter_upgradable(q, val) ==
    [q EXCEPT !.applied = FALSE, !.updatable = val]

hy_query_filter_upgrades(q, val) ==
    [q EXCEPT !.applied = FALSE, !.updates = val]

hy_query_filter_latest_per_arch(q, val) ==
    [q EXCEPT !.applied = FALSE, !.latest_per_arch = TRUE, !.latest = val]

hy_query_filter_latest(q, val) ==
    [q EXCEPT !.applied = FALSE, !.latest_per_arch = FALSE, !.latest = val]

----------------------------------------------------------------------------
(* The goal engine (hy-goal.c).  A job queue is a sequence of pairs        *)
(* <<flags, operand>>, the flags being the set of the names of the solver  *)
(* flags that are set.                                                     *)

\* FOR_PROVIDES: the packages that provide a dependency
Providers(dep) == {p \in GoalPkgs : dep \in Solvable[p].provides}

\* the ids of a set in ascending order, as the pool walks them
RECURSIVE SortedSeq(_)
SortedSeq(S) ==
    IF S = {} THEN <<>>
    ELSE LET m == CHOOSE x \in S : \A y \in S : x <= y
         IN  <<m>> \o SortedSeq(S \ {m})

Range(s) == {s[i] : i \in 1..Len(s)}

\* hy_goal_create: everything zeroed but the two queues
hy_goal_create ==
    [staging |-> <<>>, has_protected |-> FALSE, protected |-> {},
     has_solv |-> FALSE, solv |-> [problems |-> 0, decided |-> {}],
     has_trans |-> FALSE, trans |-> [erased |-> {}, installs |-> {}],
     removal_of_protected |-> <<>>, actions |-> {}]

\* a sack without install-only names and without a running kernel
NoGoalSack ==
    [installonly |-> <<>>, installonly_limit |-> 0, running_kernel |-> -1,
     requires |-> [p \in GoalPkgs |-> {}]]

\* no run was started yet
RunIdle ==
    [pc |-> "idle", job |-> <<>>, flags |-> {}, user_cb |-> FALSE,
     solver_calls |-> 0, ret |-> 0]

\* can_depend_on: a requires something that b provides
can_depend_on(a, b) == \E req_dep \in gsack.requires[a] : b \in Providers(req_dep)

\* the same comparison without the running kernel
sort_packages_NoKernel(a, b) ==
    LET name_diff == Solvable[a].name - Solvable[b].name
    IN  IF name_diff # 0 THEN name_diff ELSE pool_evrcmp(a, b)

\* sort_packages: by name, then what is or depends on the running kernel
\* last, then by EVR
sort_packages(a, b) ==
    LET name_diff == Solvable[a].name - Solvable[b].name
        kernel == gsack.running_kernel
    IN  IF name_diff # 0 THEN name_diff
        ELSE IF kernel >= 0 /\ (a = kernel \/ can_depend_on(a, kernel)) THEN 1
        ELSE IF kernel >= 0 /\ (b = kernel \/ can_depend_on(b, kernel)) THEN -1
        ELSE pool_evrcmp(a, b)

\* solv_sort with sort_packages: the orders of q the sort can leave, which are
\* those where no pair the comparison orders consistently is inverted (the
\* comparison answers 1 both ways for two kernel-related packages, so either
\* order of such a pair can come out)
solv_sort(q) ==
    {s \in [1..Cardinality(q) -> q] :
        /\ \A i, j \in 1..Cardinality(q) : i # j => s[i] # s[j]
        /\ \A i, j \in 1..Cardinality(q) :
              i < j => ~(sort_packages(s[i], s[j]) > 0 /\ sort_packages(s[j], s[i]) < 0)}

\* same_name_subqueue: pops the trailing run of one name off in, last first
same_name_subqueue(in) ==
    LET name == Solvable[in[Len(in)]].name
        n == CHOOSE k \in 1..Len(in) :
                /\ \A j \in 1..k : Solvable[in[Len(in) - j + 1]].name = name
                /\ (k < Len(in) => Solvable[in[Len(in) - k]].name # name)
    IN  [out |-> [j \in 1..n |-> in[Len(in) - j + 1]],
         in |-> SubSeq(in, 1, Len(in) - n)]

\* the same loop giving every package of a long subqueue INSTALL
RECURSIVE LimitPushes_AllInstall(_, _)
LimitPushes_AllInstall(q, limit) ==
    IF q = <<>> THEN <<>>
    ELSE LET sub == same_name_subqueue(q)
         IN  (IF Len(sub.out) <= limit THEN <<>>
              ELSE [j \in 1..Len(sub.out) |-> <<{"INSTALL", "SOLVABLE"}, sub.out[j]>>])
             \o LimitPushes_AllInstall(sub.in, limit)

\* the while loop of limit_installonly_packages over the sorted queue: the
\* jobs pushed, INSTALL for the first limit packages of each subqueue longer
\* than the limit and ERASE for its others
RECURSIVE LimitPushes(_, _)
LimitPushes(q, limit) ==
    IF q = <<>> THEN <<>>
    ELSE LET sub == same_name_subqueue(q)
         IN  (IF Len(sub.out) <= limit THEN <<>>
              ELSE [j \in 1..Len(sub.out) |->
                      <<{IF j <= limit THEN "INSTALL" ELSE "ERASE", "SOLVABLE"},
                        sub.out[j]>>])
             \o LimitPushes(sub.in, limit)

\* the decided providers of an install-only name (decision level > 0)
DecidedProviders(solv, only) == Providers(only) \cap solv.decided

\* limit_installonly_packages: the job pairs it can push, one install-only
\* name after the other; reresolve is that there are any
RECURSIVE limit_installonly_packages(_, _)
limit_installonly_packages(solv, i) ==
    IF gsack.installonly_limit = 0 \/ i > Len(gsack.installonly) THEN {<<>>}
    ELSE LET q == DecidedProviders(solv, gsack.installonly[i])
             here == IF Cardinality(q) <= gsack.installonly_limit THEN {<<>>}
                     ELSE {LimitPushes(s, gsack.installonly_limit) : s \in solv_sort(q)}
         IN  {a \o b : a \in here, b \in limit_installonly_packages(solv, i + 1)}

\* allow_uninstall_all_but_protected: allocates the protected map, puts the
\* running kernel into it and, under ALLOW_UNINSTALL, lets the solver remove
\* every other installed package
\* the same without the test of the protected bitmap
allow_uninstall_NoProtected(g, flags) ==
    LET prot == (IF g.has_protected THEN g.protected ELSE {})
                \cup (IF gsack.running_kernel > 0 THEN {gsack.running_kernel} ELSE {})
        free == {id \in GoalPkgs : Solvable[id].installed}
    IN  [goal |-> [g EXCEPT !.has_protected = TRUE, !.protected = prot],
         pushes |-> IF "ALLOW_UNINSTALL" \in flags
                    THEN [k \in 1..Cardinality(free) |->
                            <<{"ALLOWUNINSTALL", "SOLVABLE"}, SortedSeq(free)[k]>>]
                    ELSE <<>>]

\* the same without the test of HIF_ALLOW_UNINSTALL
allow_uninstall_AnyFlags(g, flags) ==
    LET prot == (IF g.has_protected THEN g.protected ELSE {})
                \cup (IF gsack.running_kernel > 0 THEN {gsack.running_kernel} ELSE {})
        free == {id \in GoalPkgs : Solvable[id].installed /\ id \notin prot}
    IN  [goal |-> [g EXCEPT !.has_protected = TRUE, !.protected = prot],
         pushes |-> [k \in 1..Cardinality(free) |->
                       <<{"ALLOWUNINSTALL", "SOLVABLE"}, SortedSeq(free)[k]>>]]

allow_uninstall_all_but_protected(g, flags) ==
    LET prot == (IF g.has_protected THEN g.protected ELSE {})
                \cup (IF gsack.running_kernel > 0 THEN {gsack.running_kernel} ELSE {})
        free == {id \in GoalPkgs : Solvable[id].installed /\ id \notin prot}
    IN  [goal |-> [g EXCEPT !.has_protected = TRUE, !.protected = prot],
         pushes |-> IF "ALLOW_UNINSTALL" \in flags
                    THEN [k \in 1..Cardinality(free) |->
                            <<{"ALLOWUNINSTALL", "SOLVABLE"}, SortedSeq(free)[k]>>]
                    ELSE <<>>]

\* the staging queue put behind the flag-made pairs
construct_job_StagingLast(g, flags) ==
    [k \in 1..Len(gsack.installonly) |->
        <<{"MULTIVERSION", "SOLVABLE_PROVIDES"}, gsack.installonly[k]>>]
    \o allow_uninstall_all_but_protected(g, flags).pushes
    \o (IF "VERIFY" \in flags THEN << <<{"VERIFY", "SOLVABLE_ALL"}, 0>> >> ELSE <<>>)
    \o [k \in 1..Len(g.staging) |->
        <<g.staging[k][1] \cup (IF "FORCE_BEST" \in flags THEN {"FORCEBEST"} ELSE {}),
          g.staging[k][2]>>]

\* construct_job: the staging queue (with FORCEBEST on every job under
\* FORCE_BEST), MULTIVERSION for the install-only names, the permissions to
\* uninstall and the VERIFY job
construct_job(g, flags) ==
    [k \in 1..Len(g.staging) |->
        <<g.staging[k][1] \cup (IF "FORCE_BEST" \in flags THEN {"FORCEBEST"} ELSE {}),
          g.staging[k][2]>>]
    \o [k \in 1..Len(gsack.installonly) |->
        <<{"MULTIVERSION", "SOLVABLE_PROVIDES"}, gsack.installonly[k]>>]
    \o allow_uninstall_all_but_protected(g, flags).pushes
    \o (IF "VERIFY" \in flags THEN << <<{"VERIFY", "SOLVABLE_ALL"}, 0>> >> ELSE <<>>)

\* solver_create_transaction: the installed packages the decisions drop are
\* removed (erased or obsoleted), the decided ones not installed come in
solver_create_transaction(solv) ==
    [erased |-> {p \in GoalPkgs : Solvable[p].installed /\ p \notin solv.decided},
     installs |-> {p \in GoalPkgs : ~Solvable[p].installed /\ p \in solv.decided}]

\* hif_goal_get_packages(REMOVE, OBSOLETE): the removed packages of the
\* transaction
hif_goal_get_packages(g) == SortedSeq(g.trans.erased)

\* protected_in_removals: keeps of the removed packages the protected ones
protected_in_removals(g) ==
    IF ~g.has_protected THEN <<>>
    ELSE SelectSeq(hif_goal_get_packages(g), LAMBDA p : p \in g.protected)

\* the end of solve(): the transaction is created, then checked for removals
\* of protected packages; gives the goal and the return value
FinishSolve(g) ==
    LET gt == [g EXCEPT !.has_trans = TRUE,
                        !.trans = solver_create_transaction(g.solv)]
        rop == protected_in_removals(gt)
    IN  [goal |-> [gt EXCEPT !.removal_of_protected = rop],
         ret |-> IF rop # <<>> THEN 1 ELSE 0]

\* the same control flow examining the limit after every successful solve
SolveNext_Relimit(calls, user_cb) ==
    IF ~user_cb THEN "limit" ELSE "transaction"

\* solve(): what follows a successful solver_solve; the install-only limit
\* is looked at after the first one only, and never with a solution callback
SolveNext(calls, user_cb) ==
    IF ~user_cb /\ calls = 1 THEN "limit" ELSE "transaction"

\* hy_goal_count_problems
hy_goal_count_problems ==
    goal.solv.problems + (IF Len(goal.removal_of_protected) >= 1 THEN 1 ELSE 0)

\* a problem description is the sequence of the package names it lists;
\* NULL and a description made by the solver are these two
NullString == <<-1>>

SolverString == <<0>>

\* hy_goal_describe_problem(i): the strings it can return.  The loop over the
\* removed protected packages counts with j and reads element i of the
\* array, which lies outside the array when i >= len: any name can be read
hy_goal_describe_problem(i) ==
    LET rop == goal.removal_of_protected
    IN  IF i >= hy_goal_count_problems THEN {NullString}
        ELSE IF i >= goal.solv.problems
        THEN IF i + 1 <= Len(rop)
             THEN {[j \in 1..Len(rop) |-> Solvable[rop[i + 1]].name]}
             ELSE [1..Len(rop) -> {Solvable[p].name : p \in GoalPkgs}]
        ELSE {SolverString}

\* list_results: an error without a transaction, else the packages of the
\* transaction of the asked type
list_results(type) ==
    IF ~goal.has_trans
    THEN [error |-> IF ~goal.has_solv THEN "INTERNAL_ERROR"
                    ELSE IF Len(goal.removal_of_protected) > 0
                    THEN "REMOVAL_OF_PROTECTED_PKG"
                    ELSE "NO_SOLUTION",
          list |-> {}]
    ELSE [error |-> "none",
          list |-> IF type = "ERASE" THEN goal.trans.erased
                   ELSE IF type = "INSTALL" THEN goal.trans.installs
                   ELSE {}]

hy_goal_list_erasures == list_results("ERASE")

hy_goal_list_installs == list_results("INSTALL")

hy_goal_list_upgrades == list_results("UPGRADE")

----------------------------------------------------------------------------
(* The calls the environment makes on queries and on the sack.             *)

\* (keyname, cmp_type, match) of the hy_query_filter calls
StrCalls ==
    { <<"NAME", {"EQ"}, 10>>, <<"NAME", {"EQ", "NOT"}, 10>>,
      <<"REQUIRES", {"EQ"}, 30>>, <<"REQUIRES", {"EQ"}, 99>>,
      <<"EPOCH", {"EQ"}, 10>> }

\* (keyname, cmp_type, match) of the hy_query_filter_num calls
NumCalls == { <<"EPOCH", {"GT"}, 0>>, <<"NAME", {"EQ"}, 0>> }

\* (keyname, cmp_type, packageset) of the hy_query_filter_package_in calls
PkgCalls == { <<"PKG", {"EQ", "NOT"}, {3, 4}>>, <<"PKG", {"GT"}, {2}>> }

\* the packagesets given to add_excludes and add_includes
ExcludeSets == { {2}, {4, 5} }

IncludeSets == { {2, 3, 4} }

\* staged_call while no staging call was recorded
NoCall == [shape |-> "none", keyname |-> "", cmp_type |-> {}, rc |-> "0"]

\* sltr_call while no selector was used in a staging call; it holds the axes
\* the selector had set, the solver action, the return value and the number
\* of pairs the call pushed to goal->staging
NoSltrCall == [sltr |-> {}, action |-> "none", rc |-> "0", pushed |-> 0]

\* a HyNevra as hy_nevra_create leaves it: strings NULL (<<>>), epoch -1
hy_nevra_create == [name |-> <<>>, epoch |-> -1, version |-> <<>>,
                    release |-> <<>>, arch |-> <<>>]

\* poss while no iterator exists; an iterator holds the subject, its forms,
\* the place of the next form to try (current), and with them what the
\* calls of hy_possibilities_next_nevra gave so far: the last return value
\* and the HyNevra of each call that returned 0
NoPoss == [has_iter |-> FALSE, subject |-> <<>>, forms |-> <<>>, current |-> 0,
           ret |-> 0, emitted |-> <<>>]

\* the threads of the interpreter
Threads == {1, 2}

\* py while no thread is in a method of the sack: nobody holds the
\* interpreter lock inside the binding, no thread is inside libdnf
PyIdle == [gil |-> 0, pc |-> [t \in Threads |-> "idle"],
           method |-> [t \in Threads |-> "none"],
           ret |-> [t \in Threads |-> "none"]]

\* the rpm transaction set before anything was added
EmptyTs == [elements |-> <<>>, notify |-> FALSE, flags |-> {}]

\* what no callback has reported yet to the HifState: the speed, the
\* percentage of the child, the package progress
NoReport == [speed |-> <<>>, percentage |-> -1, package_progress |-> <<>>]

\* hif_transaction_new, hif_transaction_init: the private data (flags, ts,
\* step, last_progress, child, install, remove, remove_helper,
\* erased_by_package_hash, pkgs_to_download; has_* is FALSE for NULL), with
\* it the rpmdb lock of the HifState and what was reported to it, the reason
\* of each package in the reason store ("none" without an entry), the
\* packages whose file exists, at its hif_package_get_filename, whether the
\* context was
\* invalidated, the packages that have their pkgid, the free bytes of the
\* cache directory's filesystem, the packages whose file has an invalid
\* signature, and where the driver is: idle or inside rpmtsRun (pc), the
\* call that returned last with its return value and error, and the
\* callback rpm made last
hif_transaction_new ==
    [flags |-> {}, ts |-> EmptyTs, step |-> "STARTED", last_progress |-> 0,
     has_child |-> FALSE,
     has_install |-> FALSE, install |-> <<>>,
     has_remove |-> FALSE, remove |-> <<>>,
     has_remove_helper |-> FALSE, remove_helper |-> <<>>,
     has_hash |-> FALSE, erased_by_package_hash |-> <<>>,
     pkgs_to_download |-> <<>>,
     lock |-> FALSE, report |-> NoReport,
     db |-> [p \in 61..68 |-> "none"], cache |-> {}, invalidated |-> FALSE,
     pkgid |-> {61, 63}, free_space |-> 0, bad_sig |-> {},
     pc |-> "idle", call |-> "none", ret |-> TRUE, error |-> "none",
     cb |-> "none"]

\* the queries start fresh; the flags of the first are either value
Init ==
    /\ \E flags \in {{}, {"IGNORE_EXCLUDES"}} :
          queries = [q \in QueryIds |-> hy_query_create_flags(flags)]
    /\ pkg_excludes = {}
    /\ pkg_includes = {}
    /\ considered = [set |-> FALSE, map |-> {}]
    /\ considered_uptodate = FALSE
    /\ crashed = FALSE
    /\ goal = hy_goal_create
    /\ run = RunIdle
    /\ gsack = NoGoalSack
    /\ staged_call = NoCall
    /\ result_map = [q \in QueryIds |-> 0]
    /\ sltr_call = NoSltrCall
    /\ poss = NoPoss
    /\ py = PyIdle
    /\ txn = hif_transaction_new

\* a staging call changes the query only
Stage(q, newq, max) ==
    /\ ~crashed
    /\ Len(newq.filters) <= max
    /\ queries' = [queries EXCEPT ![q] = newq]
    /\ UNCHANGED <<poss, py, sltr_call, txn, staged_call, result_map, pkg_excludes, pkg_includes,
                   considered, considered_uptodate, crashed, goal, run, gsack>>

HyQueryFilter(q, calls, max) ==
    \E c \in calls : Stage(q, hy_query_filter(queries[q], c[1], c[2], c[3]), max)

HyQueryFilterNum(q) ==
    \E c \in NumCalls :
        Stage(q, hy_query_filter_num(queries[q], c[1], c[2], c[3]), MaxFilters)

HyQueryFilterPackageIn(q, calls, max) ==
    \E c \in calls :
        Stage(q, hy_query_filter_package_in(queries[q], c[1], c[2], c[3]), max)

HyQueryFilterRequires(q) ==
    \E name \in {30, 99} :
        Stage(q, hy_query_filter_requires(queries[q], {"EQ", "NOT"}, name),
              MaxFilters)

HyQueryFilterEmpty(q) == Stage(q, hy_query_filter_empty(queries[q]), MaxFilters)

\* hy_query_run / hy_query_run_set: hy_query_apply, then the result bitmap is
\* read; it is NULL when the query was applied and then cleared
HyQueryRun(q) ==
    /\ ~crashed
    /\ queries' = [queries EXCEPT
                     ![q] = hy_query_apply(@,
                                ConsideredAfter(@, considered, considered_uptodate))]
    /\ considered' = ConsideredAfter(queries[q], considered, considered_uptodate)
    /\ considered_uptodate' = UptodateAfter(queries[q], considered_uptodate)
    /\ crashed' = ~queries'[q].has_result
    /\ UNCHANGED <<poss, py, sltr_call, txn, staged_call, result_map, pkg_excludes, pkg_includes, goal, run, gsack>>

\* hy_query_union / intersection / difference: both sides are applied, then
\* q's result is combined with other's
SetOp(op, a, b) ==
    CASE op = "union"        -> a \cup b
      [] op = "intersection" -> a \cap b
      [] op = "difference"   -> a \ b

\* the end of a set operation: qa and oa are the two queries applied, c2
\* and u2 the considered set and its flag after both were applied
SetOpCombine(q, other, op, qa, oa, c2, u2) ==
    /\ ~crashed
    /\ q # other
    /\ IF qa.has_result /\ oa.has_result
       THEN /\ queries' = [queries EXCEPT
                   ![q] = [qa EXCEPT !.result = SetOp(op, qa.result, oa.result)],
                   ![other] = oa]
            /\ crashed' = FALSE
       ELSE /\ queries' = [queries EXCEPT ![q] = qa, ![other] = oa]
            /\ crashed' = TRUE
    /\ considered' = c2
    /\ considered_uptodate' = u2
    /\ UNCHANGED <<poss, py, sltr_call, txn, staged_call, result_map, pkg_excludes, pkg_includes, goal, run, gsack>>

\* other is applied after q: c1 and u1 are the considered set and its flag
\* as applying q leaves them
SetOpApplyOther(q, other, op, c1, u1) ==
    SetOpCombine(q, other, op,
                 hy_query_apply(queries[q], c1),
                 hy_query_apply(queries[other],
                                ConsideredAfter(queries[other], c1, u1)),
                 ConsideredAfter(queries[other], c1, u1),
                 UptodateAfter(queries[other], u1))

HyQuerySetOp(q, other, op) ==
    SetOpApplyOther(q, other, op,
                    ConsideredAfter(queries[q], considered, considered_uptodate),
                    UptodateAfter(queries[q], considered_uptodate))

HyQueryUnion(q, other) == HyQuerySetOp(q, other, "union")

HyQueryIntersection(q, other) == HyQuerySetOp(q, other, "intersection")

HyQueryDifference(q, other) == HyQuerySetOp(q, other, "difference")

\* qn = hy_query_clone(q), kept in slot other (whose query is freed)
HyQueryClone(q, other) ==
    /\ ~crashed
    /\ q # other
    /\ queries' = [queries EXCEPT ![other] = hy_query_clone(queries[q])]
    /\ UNCHANGED <<poss, py, sltr_call, txn, staged_call, result_map, pkg_excludes, pkg_includes,
                   considered, considered_uptodate, crashed, goal, run, gsack>>

HyQueryClear(q) ==
    /\ ~crashed
    /\ queries' = [queries EXCEPT ![q] = hy_query_clear(@)]
    /\ UNCHANGED <<poss, py, sltr_call, txn, staged_call, result_map, pkg_excludes, pkg_includes,
                   considered, considered_uptodate, crashed, goal, run, gsack>>

\* dnf_sack_add_excludes: accumulates and invalidates the considered cache
AddExcludes(sets) ==
    \E p \in sets :
        /\ ~crashed
        /\ pkg_excludes' = pkg_excludes \cup p
        /\ considered_uptodate' = FALSE
        /\ UNCHANGED <<poss, py, sltr_call, txn, staged_call, result_map, queries, pkg_includes, considered,
                       crashed, goal, run, gsack>>

\* dnf_sack_add_includes
AddIncludes ==
    \E p \in IncludeSets :
        /\ ~crashed
        /\ pkg_includes' = pkg_includes \cup p
        /\ considered_uptodate' = FALSE
        /\ UNCHANGED <<poss, py, sltr_call, txn, staged_call, result_map, queries, pkg_excludes, considered,
                       crashed, goal, run, gsack>>

\* One query, created with either flag value, and the sack: every staging
\* call, run, clear, add_excludes and add_includes.
Next ==
    \/ HyQueryFilter(1, StrCalls, MaxFilters)
    \/ HyQueryFilterNum(1)
    \/ HyQueryFilterPackageIn(1, PkgCalls, MaxFilters)
    \/ HyQueryFilterRequires(1)
    \/ HyQueryFilterEmpty(1)
    \/ HyQueryRun(1)
    \/ HyQueryClear(1)
    \/ AddExcludes(ExcludeSets)
    \/ AddIncludes

Spec == Init /\ [][Next]_vars

\* Two queries over one sack, the first honouring the excludes and the second
\* ignoring them: staging, run, the set operations, clone, clear, add_excludes.
SetStrCalls == { <<"NAME", {"EQ"}, 10>> }

SetPkgCalls == { <<"PKG", {"EQ", "NOT"}, {3, 4}>> }

SetExcludeSets == { {2, 3} }

InitSet ==
    /\ queries = [q \in QueryIds |->
                    hy_query_create_flags(IF q = 1 THEN {} ELSE {"IGNORE_EXCLUDES"})]
    /\ pkg_excludes = {}
    /\ pkg_includes = {}
    /\ considered = [set |-> FALSE, map |-> {}]
    /\ considered_uptodate = FALSE
    /\ crashed = FALSE
    /\ goal = hy_goal_create
    /\ run = RunIdle
    /\ gsack = NoGoalSack
    /\ staged_call = NoCall
    /\ result_map = [q \in QueryIds |-> 0]
    /\ sltr_call = NoSltrCall
    /\ poss = NoPoss
    /\ py = PyIdle
    /\ txn = hif_transaction_new

NextSet ==
    \/ \E q \in QueryIds : HyQueryFilter(q, SetStrCalls, MaxSetFilters)
    \/ \E q \in QueryIds : HyQueryFilterPackageIn(q, SetPkgCalls, MaxSetFilters)
    \/ \E q \in QueryIds : HyQueryRun(q)
    \/ \E q, other \in QueryIds : HyQueryUnion(q, other)
    \/ \E q, other \in QueryIds : HyQueryIntersection(q, other)
    \/ \E q, other \in QueryIds : HyQueryDifference(q, other)
    \/ \E q, other \in QueryIds : HyQueryClone(q, other)
    \/ \E q \in QueryIds : HyQueryClear(q)
    \/ AddExcludes(SetExcludeSets)

SpecSet == InitSet /\ [][NextSet]_vars

----------------------------------------------------------------------------
(* The goal: staging, the protected packages, run and the solver.          *)

\* the running kernels the sack can have found (-1: none)
RunningKernels == {-1, 7}

\* who requires what in the goal's repo: nothing; package 6 something that
\* the kernel 7 provides; packages 6 and 8 both
RequiresChoices ==
    { [p \in GoalPkgs |-> {}],
      [p \in GoalPkgs |-> IF p = 6 THEN {47} ELSE {}],
      [p \in GoalPkgs |-> IF p \in {6, 8} THEN {47} ELSE {}] }

\* the flags given to hy_goal_run_all_flags
RunFlags == { {}, {"ALLOW_UNINSTALL"} }

\* the packagesets the callers protect
ProtectedSets == { {9}, {6, 9} }

\* what solver_solve can come back with: problems, or decisions
SolverOutcomes ==
    {[problems |-> 0, decided |-> d] : d \in SUBSET GoalPkgs}
    \cup {[problems |-> n, decided |-> {}] : n \in 1..MaxProblems}

InitGoal ==
    /\ queries = [q \in QueryIds |-> hy_query_create_flags({})]
    /\ pkg_excludes = {}
    /\ pkg_includes = {}
    /\ considered = [set |-> FALSE, map |-> {}]
    /\ considered_uptodate = FALSE
    /\ crashed = FALSE
    /\ goal = hy_goal_create
    /\ run = RunIdle
    /\ staged_call = NoCall
    /\ result_map = [q \in QueryIds |-> 0]
    /\ sltr_call = NoSltrCall
    /\ poss = NoPoss
    /\ py = PyIdle
    /\ txn = hif_transaction_new
    /\ \E limit \in 0..MaxLimit, kernel \in RunningKernels, req \in RequiresChoices :
          gsack = [installonly |-> <<40>>, installonly_limit |-> limit,
                   running_kernel |-> kernel, requires |-> req]

\* hy_goal_install
hy_goal_install(g, new_pkg) ==
    [g EXCEPT !.actions = @ \cup {"INSTALL"},
              !.staging = Append(@, <<{"SOLVABLE", "INSTALL"}, new_pkg>>)]

\* hy_goal_erase, hy_goal_erase_flags(0)
hy_goal_erase(g, pkg) ==
    [g EXCEPT !.actions = @ \cup {"ERASE"},
              !.staging = Append(@, <<{"SOLVABLE", "ERASE"}, pkg>>)]

\* the setter of the protected packages
hy_goal_add_protected(g, pset) ==
    [g EXCEPT !.has_protected = TRUE, !.protected = @ \cup pset]

\* a call that changes the goal only, made while no run is under way; max
\* is the longest staging queue followed
GoalStageUpTo(newgoal, max) ==
    /\ ~crashed
    /\ run.pc # "solve"
    /\ Len(newgoal.staging) <= max
    /\ goal' = newgoal
    /\ run' = [run EXCEPT !.pc = "idle"]
    /\ UNCHANGED <<poss, py, sltr_call, txn, staged_call, result_map, queries, pkg_excludes, pkg_includes,
                   considered, considered_uptodate, crashed, gsack>>

GoalStage(newgoal) == GoalStageUpTo(newgoal, MaxStaged)

HyGoalInstall == \E p \in {8} : GoalStage(hy_goal_install(goal, p))

HyGoalErase ==
    \E p \in {6} : Solvable[p].installed /\ GoalStage(hy_goal_erase(goal, p))

HyGoalAddProtected ==
    \E pset \in ProtectedSets :
        /\ ~(goal.has_protected /\ pset \subseteq goal.protected)
        /\ GoalStage(hy_goal_add_protected(goal, pset))

\* hy_goal_run_all_flags up to the first solver_solve: construct_job, the
\* flags join the actions, and solve() recomputes the considered set, frees
\* the old transaction and makes a new solver
HyGoalRunAllFlagsOf(callbacks, flagsets) ==
    \E cb \in callbacks, flags \in flagsets :
        /\ ~crashed
        /\ run.pc # "solve"
        /\ goal' = [allow_uninstall_all_but_protected(goal, flags).goal EXCEPT
                        !.actions = @ \cup flags,
                        !.has_trans = FALSE,
                        !.trans = [erased |-> {}, installs |-> {}],
                        !.has_solv = TRUE,
                        !.solv = [problems |-> 0, decided |-> {}]]
        /\ run' = [pc |-> "solve", job |-> construct_job(goal, flags),
                   flags |-> flags, user_cb |-> cb, solver_calls |-> 0, ret |-> 0]
        /\ considered' = RecomputeConsidered(considered, considered_uptodate,
                                             pkg_excludes, pkg_includes)
        /\ considered_uptodate' = TRUE
        /\ UNCHANGED <<poss, py, sltr_call, txn, staged_call, result_map, queries, pkg_excludes,
                       pkg_includes, crashed, gsack>>

HyGoalRunAllFlags == HyGoalRunAllFlagsOf(BOOLEAN, RunFlags)

\* solver_solve returns and solve() goes on to its next solver_solve or to
\* its return: a failure returns 1; after the first success the install-only
\* limit may push jobs and ask for the second solve; else the transaction is
\* created and checked for removals of protected packages
SolverSolveOf(outcomes) ==
    /\ ~crashed
    /\ run.pc = "solve"
    /\ \E out \in outcomes :
        LET calls == run.solver_calls + 1
            g1 == [goal EXCEPT !.solv = out]
            Return(g, ret) ==
                /\ goal' = g
                /\ run' = [run EXCEPT !.pc = "returned", !.job = <<>>,
                                      !.solver_calls = calls, !.ret = ret]
            Finish == Return(FinishSolve(g1).goal, FinishSolve(g1).ret)
        IN  IF out.problems > 0 THEN Return(g1, 1)
            ELSE IF SolveNext(calls, run.user_cb) = "limit"
            THEN \E pushes \in limit_installonly_packages(out, 1) :
                    IF pushes # <<>>
                    THEN LET au == allow_uninstall_all_but_protected(
                                       g1, {"ALLOW_UNINSTALL"})
                         IN  /\ goal' = au.goal
                             /\ run' = [run EXCEPT
                                          !.job = @ \o pushes \o au.pushes,
                                          !.solver_calls = calls]
                    ELSE Finish
            ELSE Finish
    /\ UNCHANGED <<poss, py, sltr_call, txn, staged_call, result_map, queries, pkg_excludes, pkg_includes,
                   considered, considered_uptodate, crashed, gsack>>

SolverSolve == SolverSolveOf(SolverOutcomes)

\* One goal over a sack whose install-only limit, running kernel and
\* requirements are any of the above.
NextGoal ==
    \/ HyGoalInstall
    \/ HyGoalErase
    \/ HyGoalAddProtected
    \/ HyGoalRunAllFlags
    \/ SolverSolve

SpecGoal == InitGoal /\ [][NextGoal]_vars

----------------------------------------------------------------------------
(* Properties of the query engine.                                         *)

\* what hy_query_run(q) returns when it is called in the current state
RunResult(q) ==
    hy_query_apply(queries[q],
                   ConsideredAfter(queries[q], considered, considered_uptodate)).result

IgnoresExcludes(q) == "IGNORE_EXCLUDES" \in queries[q].flags

NoModifiers(q) ==
    /\ ~queries[q].downgradable /\ ~queries[q].downgrades
    /\ ~queries[q].updatable /\ ~queries[q].updates /\ ~queries[q].latest

\* a query that was never evaluated: no result bitmap, not applied
Fresh(q) == ~queries[q].has_result /\ ~queries[q].applied

\* the start set of the evaluation: all packages, within the considered set
\* of the sack unless the query ignores excludes
StartSet(q) ==
    IF IgnoresExcludes(q) THEN PkgSolvables
    ELSE PkgSolvables \cap ConsideredOf(pkg_excludes, pkg_includes)

\* the packages of the start set that every non-NOT filter matches and no NOT
\* filter matches
ExpectedResult(q) ==
    {p \in StartSet(q) :
        \A i \in 1..Len(queries[q].filters) :
            LET f == queries[q].filters[i]
            IN  ("NOT" \in f.cmp_type) # (p \in FilterMap(StartSet(q), f))}

\* C1: run() on a fresh query with staged filters returns the packages of the
\* start set (all packages, within considered unless IGNORE_EXCLUDES) that
\* remain after taking, filter by filter, the difference with the match set
\* of a NOT filter and the intersection with the match set of any other.
C1_ApplyFoldsFilters ==
    \A q \in QueryIds :
        Fresh(q) /\ NoModifiers(q) => RunResult(q) = ExpectedResult(q)

\* a fresh query honouring excludes, with a NOT and a non-NOT filter staged
\* after excludes were added, whose run() returns some but not all packages
C1_Witness ==
    \E q \in QueryIds :
        /\ Fresh(q) /\ ~IgnoresExcludes(q) /\ pkg_excludes # {}
        /\ Len(queries[q].filters) = 2
        /\ "NOT" \in queries[q].filters[1].cmp_type
        /\ "NOT" \notin queries[q].filters[2].cmp_type
        /\ RunResult(q) # {} /\ RunResult(q) # StartSet(q)

\* C2 as claimed: run() on any query that does not ignore excludes returns no
\* excluded package, whatever preceded the run.
C2_ExcludedNeverReturned ==
    \A q \in QueryIds : ~IgnoresExcludes(q) => RunResult(q) \cap pkg_excludes = {}

\* the result bitmap of q holds an excluded package
HoldsExcluded(q) ==
    queries[q].has_result /\ queries[q].result \cap pkg_excludes # {}

\* C2 as amended: run() on a query that does not ignore excludes and whose
\* result bitmap is first initialised by that run returns no excluded
\* package; and the result of such a query comes to hold an excluded package
\* only by an add_excludes call made after it was initialised or by a union
\* with, or a clone of, a query whose result holds one.
C2_FreshQueryHonoursExcludes ==
    /\ [](\A q \in QueryIds :
            Fresh(q) /\ ~IgnoresExcludes(q) => RunResult(q) \cap pkg_excludes = {})
    /\ [][\A q \in QueryIds :
            (~IgnoresExcludes(q))' /\ HoldsExcluded(q)'
                => \/ HoldsExcluded(q)
                   \/ pkg_excludes' # pkg_excludes
                   \/ \E o \in QueryIds \ {q} : HoldsExcluded(o)']_vars

\* excludes were added, and a query honouring them was then evaluated to a
\* non-empty result none of whose packages is excluded
C2_Witness ==
    \E q \in QueryIds :
        /\ ~IgnoresExcludes(q) /\ pkg_excludes # {}
        /\ considered.set /\ considered_uptodate
        /\ queries[q].applied /\ queries[q].has_result
        /\ queries[q].result # {} /\ queries[q].result \cap pkg_excludes = {}

\* C9 as claimed: once filter_empty() was called on a query (its ALL filter
\* is pending), the next run() returns nothing.
C9_FilterEmptyForcesEmpty ==
    \A q \in QueryIds :
        (\E i \in 1..Len(queries[q].filters) : queries[q].filters[i].keyname = "ALL")
            => RunResult(q) = {}

\* C10 as claimed: applied = true implies that no filter is pending.
C10_AppliedImpliesNothingPending ==
    \A q \in QueryIds : queries[q].applied => queries[q].filters = <<>>

----------------------------------------------------------------------------
(* Properties of the goal engine.                                          *)

\* run has returned and nothing was staged since
Returned == run.pc = "returned"

\* the limit enforcement has pushed its jobs and the second solve is due
LimitPending == run.pc = "solve" /\ run.solver_calls = 1

\* the jobs the limit enforcement pushed: what follows construct_job's part
\* of the job queue and is an INSTALL or an ERASE of one package
LimitJobs ==
    LET base == Len(construct_job(goal, run.flags))
    IN  SelectSeq(SubSeq(run.job, base + 1, Len(run.job)),
                  LAMBDA j : "ALLOWUNINSTALL" \notin j[1])

LimitErased == {j[2] : j \in {k \in Range(LimitJobs) : "ERASE" \in k[1]}}

LimitInstalled == {j[2] : j \in {k \in Range(LimitJobs) : "INSTALL" \in k[1]}}

\* a package that is the running kernel or can depend on it
KernelRelated(p) ==
    /\ gsack.running_kernel >= 0
    /\ (p = gsack.running_kernel \/ can_depend_on(p, gsack.running_kernel))

GoalNames == {Solvable[p].name : p \in GoalPkgs}

\* the decided providers of an install-only name that carry one package name
NameGroup(only, name) ==
    {p \in DecidedProviders(goal.solv, only) : Solvable[p].name = name}

InstallOnlyNames == Range(gsack.installonly)

\* C3 (as claimed): when the solved transaction removes a protected package,
\* run returns non-zero, count_problems is the solver's count plus one and
\* the last problem's description names every removed protected package.
C3_ProtectedRemovalNamesAll ==
    (Returned /\ goal.has_trans /\ goal.protected \cap goal.trans.erased # {}) =>
        /\ run.ret # 0
        /\ hy_goal_count_problems = goal.solv.problems + 1
        /\ \A d \in hy_goal_describe_problem(hy_goal_count_problems - 1) :
              \A p \in goal.protected \cap goal.trans.erased :
                  Solvable[p].name \in Range(d)

\* C4 (as claimed): after a run that returned non-zero the goal holds the
\* solver and no transaction, and the list accessors return an error.
C4_FailedRunHoldsNoTransaction ==
    (Returned /\ run.ret # 0) =>
        /\ goal.has_solv
        /\ ~goal.has_trans
        /\ \A r \in {hy_goal_list_erasures, hy_goal_list_installs,
                     hy_goal_list_upgrades} :
              r.error \in {"REMOVAL_OF_PROTECTED_PKG", "NO_SOLUTION"}

\* C5 (as claimed): with a limit L > 0, of the decided providers of an
\* install-only name at most L are not given ERASE, whatever their names:
\* both where the limit enforcement pushed jobs and after a successful run
\* that needed no second solve.
C5_ProvidersWithinLimit ==
    \A only \in InstallOnlyNames :
        gsack.installonly_limit > 0 =>
            /\ LimitPending =>
                  Cardinality(DecidedProviders(goal.solv, only) \ LimitErased)
                      <= gsack.installonly_limit
            /\ (Returned /\ run.ret = 0 /\ run.solver_calls = 1) =>
                  Cardinality(DecidedProviders(goal.solv, only))
                      <= gsack.installonly_limit

\* C5 (amended): in a run without a solution callback and with a limit
\* L > 0, of the decided providers of an install-only name that carry one
\* package name at most L are not given ERASE.
C5_SameNameProvidersWithinLimit ==
    \A only \in InstallOnlyNames : \A name \in GoalNames :
        (gsack.installonly_limit > 0 /\ ~run.user_cb) =>
            /\ LimitPending =>
                  Cardinality(NameGroup(only, name) \ LimitErased)
                      <= gsack.installonly_limit
            /\ (Returned /\ run.ret = 0 /\ run.solver_calls = 1) =>
                  Cardinality(NameGroup(only, name)) <= gsack.installonly_limit

\* jobs were pushed for a name whose providers outnumber the limit while
\* the providers of all names left installed outnumber it still
C5_Witness ==
    /\ LimitPending
    /\ LimitErased # {}
    /\ \E only \in InstallOnlyNames :
          Cardinality(DecidedProviders(goal.solv, only) \ LimitErased)
              > gsack.installonly_limit

\* C6 (as claimed): the limit enforcement pushes no ERASE for the running
\* kernel; where it pushes jobs for the kernel's name, the kernel gets
\* INSTALL.
C6_RunningKernelNotErased ==
    (LimitPending /\ gsack.running_kernel \in goal.solv.decided) =>
        /\ gsack.running_kernel \notin LimitErased
        /\ (\E p \in LimitErased :
                Solvable[p].name = Solvable[gsack.running_kernel].name)
            => gsack.running_kernel \in LimitInstalled

\* C7 (as claimed): for a name with more decided providers than the limit,
\* exactly L get INSTALL and the others ERASE, and the erased are the
\* lowest-EVR ones among those not related to the running kernel.
C7_ErasedAreLowestUnrelated ==
    \A only \in InstallOnlyNames : \A name \in GoalNames :
        LET group == NameGroup(only, name)
            erased == group \cap LimitErased
            kept == group \cap LimitInstalled
        IN  (LimitPending /\ Cardinality(group) > gsack.installonly_limit) =>
                /\ Cardinality(kept) = gsack.installonly_limit
                /\ erased = group \ kept
                /\ \A e \in erased :
                      /\ ~KernelRelated(e)
                      /\ \A k \in group \ erased :
                            ~KernelRelated(k) => pool_evrcmp(e, k) <= 0

\* C7 (amended): for a name with more decided providers than the limit,
\* exactly L get INSTALL and the others ERASE; a package unrelated to the
\* running kernel is kept only if every erased one is unrelated too and has
\* no higher EVR (so kernel-related packages are erased only when they
\* alone outnumber the limit).
C7_KeptAreKernelRelatedThenHighest ==
    \A only \in InstallOnlyNames : \A name \in GoalNames :
        LET group == NameGroup(only, name)
            erased == group \cap LimitErased
            kept == group \cap LimitInstalled
        IN  (LimitPending /\ Cardinality(group) > gsack.installonly_limit) =>
                /\ Cardinality(kept) = gsack.installonly_limit
                /\ erased = group \ kept
                /\ \A e \in erased : \A k \in kept :
                      \/ KernelRelated(k)
                      \/ (~KernelRelated(e) /\ pool_evrcmp(e, k) <= 0)

\* a kernel-related package of low EVR is kept while one of higher EVR goes
C7_Witness ==
    /\ LimitPending
    /\ \E e \in LimitErased, k \in LimitInstalled :
          /\ Solvable[e].name = Solvable[k].name
          /\ KernelRelated(k)
          /\ ~KernelRelated(e)
          /\ pool_evrcmp(e, k) > 0

\* C8: a run invokes the solver at most twice, the second time only after
\* the limit enforcement looked at the first solution, and a run whose last
\* solve left problems returns non-zero.
C8_AtMostTwoSolves ==
    /\ run.solver_calls <= 2
    /\ run.pc = "solve" => run.solver_calls <= 1
    /\ (Returned /\ goal.solv.problems > 0) => run.ret # 0

\* the second solve of a run failed
C8_Witness ==
    /\ Returned
    /\ run.solver_calls = 2
    /\ goal.solv.problems > 0
    /\ run.ret # 0

----------------------------------------------------------------------------
(* Properties of apply, of the set operations and of the modifiers.        *)

\* what hy_query_apply makes of query q in the current state
Applied(q) ==
    hy_query_apply(queries[q],
                   ConsideredAfter(queries[q], considered, considered_uptodate))

\* no modifier flag is set in the query record a
ModifiersCleared(a) ==
    /\ ~a.downgradable /\ ~a.downgrades /\ ~a.updatable /\ ~a.updates
    /\ ~a.latest /\ ~a.latest_per_arch

\* C11 as claimed: after apply() the pending filter list is empty and every
\* modifier flag is cleared, and a second apply() with nothing staged in
\* between leaves result, applied and the filter list unchanged.
C11_ApplyConsumesStagedAndIsIdempotent ==
    \A q \in QueryIds :
        /\ Applied(q).filters = <<>>
        /\ ModifiersCleared(Applied(q))
        /\ Applied(q).applied
        /\ hy_query_apply(Applied(q), considered) = Applied(q)

\* pool->considered as any hy_query_apply finds it: init_result has it
\* recomputed before reading it
ConsideredNow ==
    RecomputeConsidered(considered, considered_uptodate, pkg_excludes, pkg_includes)

\* hy_query_union / intersection / difference on two query objects a and b
\* that are not held in the table of queries (clones): the query a becomes.
\* Both are applied; when either has no result bitmap the map operation
\* reads a NULL Map and the process ends, which leaves no result.
SetOpOnClones(op, a, b) ==
    IF hy_query_apply(a, ConsideredNow).has_result
       /\ hy_query_apply(b, ConsideredNow).has_result
    THEN [hy_query_apply(a, ConsideredNow) EXCEPT
             !.result = SetOp(op, @, hy_query_apply(b, ConsideredNow).result)]
    ELSE [hy_query_apply(a, ConsideredNow) EXCEPT
             !.has_result = FALSE, !.result = {}]

\* the result set a query object holds, and whether it holds a bitmap at all
ResultOf(a) == [has_result |-> a.has_result, result |-> a.result]

\* the queries the laws are checked on: clones of the queries of the state
\* and of a fresh query with one filter staged
Operands ==
    {hy_query_clone(queries[q]) : q \in QueryIds}
        \cup {hy_query_filter_package_in(hy_query_create_flags({}),
                                         "PKG", {"EQ"}, {2, 3})}

\* C12 as claimed: on clones of any queries a, b, c of one sack, union is
\* commutative and associative on the result sets, intersection(a, b) equals
\* difference(a, difference(a, b)), and difference(a, a) is empty.
C12_SetAlgebraLaws ==
    \A a, b, c \in Operands :
        /\ ResultOf(SetOpOnClones("union", a, b))
               = ResultOf(SetOpOnClones("union", b, a))
        /\ ResultOf(SetOpOnClones("union", SetOpOnClones("union", a, b), c))
               = ResultOf(SetOpOnClones("union", a, SetOpOnClones("union", b, c)))
        /\ ResultOf(SetOpOnClones("intersection", a, b))
               = ResultOf(SetOpOnClones("difference", a,
                                        SetOpOnClones("difference", a, b)))
        /\ ResultOf(SetOpOnClones("difference", a, a))
               = [has_result |-> TRUE, result |-> {}]

\* C13 as claimed: union / intersection / difference(a, b) applies both
\* queries and then replaces a's result only: afterwards a is applied and
\* holds the combination of the two results, and b holds what b.run() alone
\* would have returned.
C13_SetOpAppliesBothChangesFirst ==
    [][\A q, other \in QueryIds :
         \A op \in {"union", "intersection", "difference"} :
            HyQuerySetOp(q, other, op)
                => /\ ~crashed'
                   /\ queries'[q].applied /\ queries'[other].applied
                   /\ queries'[other].has_result
                   /\ queries'[other].result = RunResult(other)
                   /\ queries'[q].result
                          = SetOp(op, RunResult(q), RunResult(other))]_vars

----------------------------------------------------------------------------
(* One query with the latest modifiers: package-set filters, the upgrades  *)
(* modifier, filter_latest, filter_latest_per_arch and run.                *)

MaxModFilters == 1

\* (keyname, cmp_type, packageset) of the hy_query_filter_package_in calls:
\* packages 2, 4 and 5 carry one name, 3 another, and 3 lies between them
\* in id order
ModPkgCalls ==
    { <<"PKG", {"EQ"}, s>> : s \in { {2, 3, 4, 5}, {2, 3, 5}, {2, 5}, {2, 4, 5},
                                     {3, 4}, {2, 4} } }

HyQueryFilterUpgrades(q) ==
    \E val \in BOOLEAN :
        Stage(q, hy_query_filter_upgrades(queries[q], val), MaxModFilters)

HyQueryFilterLatest(q) ==
    \E val \in BOOLEAN :
        Stage(q, hy_query_filter_latest(queries[q], val), MaxModFilters)

HyQueryFilterLatestPerArch(q) ==
    \E val \in BOOLEAN :
        Stage(q, hy_query_filter_latest_per_arch(queries[q], val), MaxModFilters)

NextMod ==
    \/ HyQueryFilterPackageIn(1, ModPkgCalls, MaxModFilters)
    \/ HyQueryFilterUpgrades(1)
    \/ HyQueryFilterLatest(1)
    \/ HyQueryFilterLatestPerArch(1)
    \/ HyQueryRun(1)

SpecMod == Init /\ [][NextMod]_vars

\* the result hy_query_apply would reach for q without its latest step:
\* the filters and the upgrade/downgrade modifiers only
PreLatest(q) ==
    hy_query_apply([queries[q] EXCEPT !.latest = FALSE],
                   ConsideredAfter(queries[q], considered, considered_uptodate)).result

SameNameArch(a, b) ==
    Solvable[a].name = Solvable[b].name /\ Solvable[a].arch = Solvable[b].arch

\* C14: with filter_latest_per_arch(true) staged, run() keeps of the
\* pre-narrowing set exactly one package per (name, arch) pair present in
\* it, and the kept package's EVR is not below that of any package of the
\* same name and arch in the pre-narrowing set.
C14_LatestPerArchKeepsOnePerNameArch ==
    \A q \in QueryIds :
        ~queries[q].applied /\ queries[q].latest /\ queries[q].latest_per_arch
            => /\ RunResult(q) \subseteq PreLatest(q)
               /\ \A p \in PreLatest(q) :
                     /\ Cardinality({r \in RunResult(q) : SameNameArch(r, p)}) = 1
                     /\ \A r \in RunResult(q) :
                           SameNameArch(r, p) => pool_evrcmp(r, p) >= 0

\* filter_latest_per_arch(true) is staged on a set that holds two packages
\* of one name and arch and a third of that name and another arch: run()
\* drops one of the first two and keeps the third
C14_Witness ==
    \E q \in QueryIds :
        /\ ~queries[q].applied /\ queries[q].latest /\ queries[q].latest_per_arch
        /\ PreLatest(q) = {2, 4, 5}
        /\ RunResult(q) = {4, 5}

\* C15 as claimed: with filter_latest(true) staged (not per arch), run()
\* keeps of the pre-narrowing set exactly one package per name present in
\* it, one whose EVR is the highest of that name, also when packages of
\* other names lie between them in id order.
C15_LatestKeepsOnePerName ==
    \A q \in QueryIds :
        ~queries[q].applied /\ queries[q].latest /\ ~queries[q].latest_per_arch
            => /\ RunResult(q) \subseteq PreLatest(q)
               /\ \A p \in PreLatest(q) :
                     /\ Cardinality({r \in RunResult(q) :
                                       Solvable[r].name = Solvable[p].name}) = 1
                     /\ \A r \in RunResult(q) :
                           Solvable[r].name = Solvable[p].name
                               => pool_evrcmp(r, p) >= 0

----------------------------------------------------------------------------
(* The validity check of the staging functions: every keyname of the menu  *)
(* with every comparison of the menu, given as a string, as a number and   *)
(* as a packageset; the return value of each call is kept in staged_call.  *)

MaxValidFilters == 1

ValidKeynames == {"NAME", "URL", "LOCATION", "EPOCH", "PKG", "OBSOLETES"}

ValidCmpTypes ==
    { {"EQ"}, {"EQ", "NOT"}, {"GT"}, {"LT"}, {"SUBSTR"}, {"GLOB"},
      {"EQ", "ICASE"}, {"GLOB", "ICASE", "NOT"} }

\* the return value of hy_query_filter / hy_query_filter_num /
\* hy_query_filter_package_in, by name: DNF_ERROR_BAD_QUERY from the validity
\* test, 0 from every path behind it
ReturnValue(shape, keyname, cmp_type) ==
    CASE shape = "str" ->
             IF ~valid_filter_str(keyname, cmp_type) THEN "DNF_ERROR_BAD_QUERY" ELSE "0"
      [] shape = "num" ->
             IF ~valid_filter_num(keyname, cmp_type) THEN "DNF_ERROR_BAD_QUERY" ELSE "0"
      [] shape = "pkg" ->
             IF ~valid_filter_pkg(keyname, cmp_type) THEN "DNF_ERROR_BAD_QUERY" ELSE "0"

\* a staging call on q whose return value the caller keeps
StageRecorded(q, newq, shape, keyname, cmp_type) ==
    /\ ~crashed
    /\ Len(newq.filters) <= MaxValidFilters
    /\ queries' = [queries EXCEPT ![q] = newq]
    /\ staged_call' = [shape |-> shape, keyname |-> keyname,
                       cmp_type |-> cmp_type,
                       rc |-> ReturnValue(shape, keyname, cmp_type)]
    /\ UNCHANGED <<poss, py, sltr_call, txn, result_map, pkg_excludes, pkg_includes, considered,
                   considered_uptodate, crashed, goal, run, gsack>>

HyQueryFilterRecorded(q) ==
    \E keyname \in ValidKeynames, cmp_type \in ValidCmpTypes :
        StageRecorded(q, hy_query_filter(queries[q], keyname, cmp_type, 30),
                      "str", keyname, cmp_type)

HyQueryFilterNumRecorded(q) ==
    \E keyname \in ValidKeynames, cmp_type \in ValidCmpTypes :
        StageRecorded(q, hy_query_filter_num(queries[q], keyname, cmp_type, 0),
                      "num", keyname, cmp_type)

HyQueryFilterPackageInRecorded(q) ==
    \E keyname \in ValidKeynames, cmp_type \in ValidCmpTypes :
        StageRecorded(q, hy_query_filter_package_in(queries[q], keyname,
                                                    cmp_type, {2, 3}),
                      "pkg", keyname, cmp_type)

NextValid ==
    \/ HyQueryFilterRecorded(1)
    \/ HyQueryFilterNumRecorded(1)
    \/ HyQueryFilterPackageInRecorded(1)
    \/ HyQueryClear(1)

SpecValid == Init /\ [][NextValid]_vars

\* the validity table: the rows of the string scalars, of LOCATION and
\* SOURCERPM, of EPOCH and of the packagesets; NOT is allowed on every row
\* that allows EQ
InTable(shape, keyname, cmp_type) ==
    CASE shape = "str" /\ keyname \in {"NAME", "ARCH", "SUMMARY", "URL"} ->
             (cmp_type \ {"ICASE", "NOT"}) \in {{"EQ"}, {"SUBSTR"}, {"GLOB"}}
      [] shape = "str" /\ keyname \in {"LOCATION", "SOURCERPM"} ->
             (cmp_type \ {"NOT"}) = {"EQ"}
      [] shape = "num" /\ keyname = "EPOCH" ->
             (cmp_type \ {"NOT"}) \in {{"EQ"}, {"GT"}, {"LT"}}
      [] shape = "pkg" /\ keyname \in {"PKG", "OBSOLETES"} ->
             cmp_type \in {{"EQ"}, {"EQ", "NOT"}}
      [] OTHER -> FALSE

\* the triples the claim speaks of: strings for the string scalars and for
\* LOCATION and SOURCERPM, numbers and packagesets for every keyname
Tabled(shape, keyname) ==
    \/ shape = "str" /\ keyname \in {"NAME", "ARCH", "SUMMARY", "URL",
                                     "LOCATION", "SOURCERPM"}
    \/ shape \in {"num", "pkg"}

\* C16 as claimed: a staging call returns BadQuery for every (keyname,
\* cmp_type, value shape) outside the validity table and success for every
\* triple inside it.
C16_BadQueryOutsideTable ==
    Tabled(staged_call.shape, staged_call.keyname)
        => (staged_call.rc = "0"
               <=> InTable(staged_call.shape, staged_call.keyname,
                           staged_call.cmp_type))

----------------------------------------------------------------------------
(* Two query objects and the Map objects their results point to: staging,  *)
(* run, clear, a set operation of a query with itself, and clone.  A write *)
(* to a Map shows in every query that points to it.                        *)

MapAddrs == 1..3

\* g_malloc0 of a Map for query q: an address no other query points to
NewMap(q) == CHOOSE a \in MapAddrs : \A o \in QueryIds \ {q} : result_map[o] # a

\* the clone pointing to the Map of the query it was cloned from
map_init_clone_Shared(fresh, addr) == addr

\* map_init_clone(qn->result, q->result) on the Map just allocated: the
\* address the clone's result points to
map_init_clone(fresh, addr) == fresh

\* o's result points to the Map that q's result points to
SharesMap(o, q) == o # q /\ result_map[q] # 0 /\ result_map[o] = result_map[q]

\* query q becomes newq by a call that works on q alone.  Its Map is written
\* in place, allocated when q had none, or freed (hy_query_clear); a freed
\* Map that another query still points to leaves that query dangling, and
\* what the process does then is open.
ObjStep(q, newq, dies) ==
    /\ ~crashed
    /\ queries' = [o \in QueryIds |->
                     IF o = q THEN newq
                     ELSE IF SharesMap(o, q) /\ newq.has_result
                     THEN [queries[o] EXCEPT !.result = newq.result]
                     ELSE queries[o]]
    /\ result_map' = [result_map EXCEPT
                        ![q] = IF ~newq.has_result THEN 0
                               ELSE IF @ # 0 THEN @ ELSE NewMap(q)]
    /\ IF ~newq.has_result /\ \E o \in QueryIds : SharesMap(o, q)
       THEN crashed' \in BOOLEAN
       ELSE crashed' = dies
    /\ UNCHANGED <<poss, py, sltr_call, txn, pkg_excludes, pkg_includes, goal, run, gsack, staged_call>>

\* a staging call
ObjStage(q, newq) ==
    /\ Len(newq.filters) <= MaxSetFilters
    /\ ObjStep(q, newq, FALSE)
    /\ UNCHANGED <<considered, considered_uptodate>>

HyQueryFilterObj(q) ==
    \E c \in SetStrCalls : ObjStage(q, hy_query_filter(queries[q], c[1], c[2], c[3]))

HyQueryFilterPackageInObj(q) ==
    \E c \in SetPkgCalls :
        ObjStage(q, hy_query_filter_package_in(queries[q], c[1], c[2], c[3]))

\* hy_query_run: the process ends when the applied query has no result
HyQueryRunObj(q) ==
    /\ ObjStep(q, Applied(q), ~Applied(q).has_result)
    /\ considered' = ConsideredAfter(queries[q], considered, considered_uptodate)
    /\ considered_uptodate' = UptodateAfter(queries[q], considered_uptodate)

HyQueryClearObj(q) ==
    /\ ObjStep(q, hy_query_clear(queries[q]), FALSE)
    /\ UNCHANGED <<considered, considered_uptodate>>

\* hy_query_union / intersection / difference (q, q)
HyQuerySetOpSelf(q) ==
    \E op \in {"union", "intersection", "difference"} :
        /\ ObjStep(q, SetOpOnClones(op, queries[q], queries[q]),
                   ~Applied(q).has_result)
        /\ considered' = ConsideredAfter(queries[q], considered, considered_uptodate)
        /\ considered_uptodate' = UptodateAfter(queries[q], considered_uptodate)

\* qn = hy_query_clone(q), kept in slot other, whose query is freed first
HyQueryCloneObj(q, other) ==
    /\ ~crashed
    /\ q # other
    /\ queries' = [queries EXCEPT ![other] = hy_query_clone(queries[q])]
    /\ result_map' = [result_map EXCEPT
                        ![other] = IF queries[q].has_result
                                   THEN map_init_clone(NewMap(other), result_map[q])
                                   ELSE 0]
    /\ UNCHANGED <<poss, py, sltr_call, txn, pkg_excludes, pkg_includes, considered, considered_uptodate,
                   crashed, goal, run, gsack, staged_call>>

\* a call that works on query q alone
OnOne(q) ==
    \/ HyQueryFilterObj(q)
    \/ HyQueryFilterPackageInObj(q)
    \/ HyQueryRunObj(q)
    \/ HyQueryClearObj(q)
    \/ HyQuerySetOpSelf(q)

NextClone ==
    \/ \E q \in QueryIds : HyQueryFilterObj(q)
    \/ \E q \in QueryIds : HyQueryFilterPackageInObj(q)
    \/ \E q \in QueryIds : HyQueryRunObj(q)
    \/ \E q \in QueryIds : HyQueryClearObj(q)
    \/ \E q \in QueryIds : HyQuerySetOpSelf(q)
    \/ \E q, other \in QueryIds : HyQueryCloneObj(q, other)

SpecClone == InitSet /\ [][NextClone]_vars

----------------------------------------------------------------------------
(* The job queue: one goal with up to two staged jobs, run with the flags  *)
(* that shape the job, over a sack with an install-only limit of one.      *)

MaxJobStaged == 2

\* the flags given to hy_goal_run_all_flags
JobRunFlags ==
    { {}, {"ALLOW_UNINSTALL"}, {"FORCE_BEST", "VERIFY"},
      {"ALLOW_UNINSTALL", "VERIFY"} }

\* what solver_solve comes back with: a problem; decisions that keep both
\* installed providers of the install-only name; decisions that keep one
JobSolverOutcomes ==
    { [problems |-> 1, decided |-> {}],
      [problems |-> 0, decided |-> {6, 7, 9}],
      [problems |-> 0, decided |-> {7, 8, 9}],
      [problems |-> 0, decided |-> {7, 9}] }

InitJob ==
    /\ queries = [q \in QueryIds |-> hy_query_create_flags({})]
    /\ pkg_excludes = {}
    /\ pkg_includes = {}
    /\ considered = [set |-> FALSE, map |-> {}]
    /\ considered_uptodate = FALSE
    /\ crashed = FALSE
    /\ goal = hy_goal_create
    /\ run = RunIdle
    /\ staged_call = NoCall
    /\ result_map = [q \in QueryIds |-> 0]
    /\ sltr_call = NoSltrCall
    /\ poss = NoPoss
    /\ py = PyIdle
    /\ txn = hif_transaction_new
    /\ \E kernel \in RunningKernels :
          gsack = [installonly |-> <<40>>, installonly_limit |-> 1,
                   running_kernel |-> kernel,
                   requires |-> [p \in GoalPkgs |-> {}]]

HyGoalInstallJob ==
    \E p \in {8} : GoalStageUpTo(hy_goal_install(goal, p), MaxJobStaged)

HyGoalEraseJob ==
    \E p \in {6} : GoalStageUpTo(hy_goal_erase(goal, p), MaxJobStaged)

HyGoalAddProtectedJob ==
    \E pset \in ProtectedSets :
        /\ ~(goal.has_protected /\ pset \subseteq goal.protected)
        /\ GoalStageUpTo(hy_goal_add_protected(goal, pset), MaxJobStaged)

HyGoalRunAllFlagsJob == HyGoalRunAllFlagsOf({FALSE}, JobRunFlags)

SolverSolveJob == SolverSolveOf(JobSolverOutcomes)

NextJob ==
    \/ HyGoalInstallJob
    \/ HyGoalEraseJob
    \/ HyGoalAddProtectedJob
    \/ HyGoalRunAllFlagsJob
    \/ SolverSolveJob

SpecJob == InitJob /\ [][NextJob]_vars

\* solve() is about to call solver_solve on run.job
AtSolve == run.pc = "solve"

\* the packages the ALLOWUNINSTALL pairs of job name
AllowUninstalled(job) ==
    {job[k][2] : k \in {i \in 1..Len(job) : "ALLOWUNINSTALL" \in job[i][1]}}

\* C18: in every job handed to the solver, at the first solve and at the
\* install-only re-solve and under all run flags, no ALLOWUNINSTALL pair
\* names a protected package, and a known running kernel is protected
\* before the job is solved.
C18_ProtectedNeverAllowUninstall ==
    AtSolve =>
        /\ goal.has_protected
        /\ AllowUninstalled(run.job) \cap goal.protected = {}
        /\ gsack.running_kernel > 0 => gsack.running_kernel \in goal.protected

\* the install-only re-solve of a run made without ALLOW_UNINSTALL: the job
\* holds ALLOWUNINSTALL pairs, a package protected by the caller and the
\* running kernel are installed and protected
C18_Witness ==
    /\ AtSolve /\ run.solver_calls = 1
    /\ "ALLOW_UNINSTALL" \notin run.flags
    /\ AllowUninstalled(run.job) # {}
    /\ gsack.running_kernel = 7
    /\ {7, 9} \subseteq goal.protected

\* the installed packages that are not protected
Unprotected ==
    {id \in GoalPkgs : Solvable[id].installed /\ id \notin goal.protected}

\* the job is as construct_job built it: no solver_solve was made yet
FirstSolve == AtSolve /\ run.solver_calls = 0

\* C19 as claimed: on every run, whatever the run flags, the job that is
\* constructed holds an ALLOWUNINSTALL|SOLVABLE pair for every installed
\* package that is not protected.
C19_AllowUninstallOnEveryRun ==
    FirstSolve =>
        \A id \in Unprotected :
            \E k \in 1..Len(run.job) :
                run.job[k] = <<{"ALLOWUNINSTALL", "SOLVABLE"}, id>>

\* C19 as amended: the constructed job holds an ALLOWUNINSTALL|SOLVABLE pair
\* for exactly the installed packages that are not protected when the run
\* flags hold ALLOW_UNINSTALL, and no ALLOWUNINSTALL pair when they do not;
\* the job of the install-only re-solve holds the pairs under all run flags.
C19_AllowUninstallUnderFlag ==
    /\ FirstSolve =>
          /\ AllowUninstalled(run.job)
                 = IF "ALLOW_UNINSTALL" \in run.flags THEN Unprotected ELSE {}
          /\ \A k \in 1..Len(run.job) :
                "ALLOWUNINSTALL" \in run.job[k][1]
                    => run.job[k][1] = {"ALLOWUNINSTALL", "SOLVABLE"}
    /\ (AtSolve /\ run.solver_calls = 1) => AllowUninstalled(run.job) = Unprotected

\* a run with ALLOW_UNINSTALL is at its first solve: with the caller's
\* protected package 9 and the running kernel 7 protected, the one pair is
\* that of the installed package 6
C19_Witness ==
    /\ FirstSolve /\ "ALLOW_UNINSTALL" \in run.flags
    /\ goal.protected = {7, 9}
    /\ AllowUninstalled(run.job) = {6}

\* job is the pairs of staged in their order, then one MULTIVERSION pair
\* per install-only name, then ALLOWUNINSTALL pairs only, and last the
\* VERIFY pair if and only if VERIFY is among the run flags
JobInOrder(job, staged) ==
    LET n == Len(staged)
        m == Len(gsack.installonly)
        verify == << {"VERIFY", "SOLVABLE_ALL"}, 0 >>
        last == IF "VERIFY" \in run.flags THEN Len(job) - 1 ELSE Len(job)
    IN  /\ last >= n + m
        /\ \A k \in 1..n : job[k] = staged[k]
        /\ \A k \in 1..m :
              job[n + k] = << {"MULTIVERSION", "SOLVABLE_PROVIDES"},
                              gsack.installonly[k] >>
        /\ \A k \in (n + m + 1)..last :
              job[k][1] = {"ALLOWUNINSTALL", "SOLVABLE"}
        /\ "VERIFY" \in run.flags => job[Len(job)] = verify

\* the staged pairs as a run with FORCE_BEST hands them over
WithForceBest(staged) ==
    [k \in 1..Len(staged) |->
        << staged[k][1] \cup (IF "FORCE_BEST" \in run.flags
                              THEN {"FORCEBEST"} ELSE {}),
           staged[k][2] >>]

\* C20 as claimed: the job handed to the solver is the staged pairs in their
\* staging order, then the MULTIVERSION pairs, then the ALLOWUNINSTALL
\* pairs, then the VERIFY pair when VERIFY is set; and a run does not change
\* the staging queue.
C20_JobIsStagingThenFlagPairs ==
    AtSolve => JobInOrder(run.job, goal.staging)

\* C20 as amended: the job of the first solve is the staged pairs in their
\* staging order, each with FORCEBEST added under FORCE_BEST, then the
\* MULTIVERSION pairs, the ALLOWUNINSTALL pairs and the VERIFY pair; the job
\* of the install-only re-solve is that job with INSTALL, ERASE and
\* ALLOWUNINSTALL pairs appended.  No step of a run changes the staging
\* queue or the job a run with the same flags constructs, which is the job
\* the run handed over.
C20_FirstJobIsStagingThenFlagPairs ==
    /\ [](FirstSolve => JobInOrder(run.job, WithForceBest(goal.staging)))
    /\ [][(AtSolve \/ AtSolve')
            => /\ goal'.staging = goal.staging
               /\ construct_job(goal', run'.flags) = construct_job(goal, run'.flags)
               /\ ~AtSolve => run'.job = construct_job(goal', run'.flags)
               /\ (AtSolve /\ AtSolve')
                     => /\ Len(run'.job) > Len(run.job)
                        /\ SubSeq(run'.job, 1, Len(run.job)) = run.job
                        /\ \A k \in (Len(run.job) + 1)..Len(run'.job) :
                              run'.job[k][1] \in {{"SOLVABLE", "INSTALL"},
                                                  {"SOLVABLE", "ERASE"},
                                                  {"ALLOWUNINSTALL", "SOLVABLE"}}]_vars

\* a second run, made with FORCE_BEST and VERIFY after a run with
\* ALLOW_UNINSTALL, is at its first solve: install 8 and erase 6 were staged
\* in that order and head the job in that order, the VERIFY pair ends it
C20_Witness ==
    /\ FirstSolve
    /\ run.flags = {"FORCE_BEST", "VERIFY"}
    /\ "ALLOW_UNINSTALL" \in goal.actions
    /\ Len(goal.staging) = 2
    /\ goal.staging[1] = << {"SOLVABLE", "INSTALL"}, 8 >>
    /\ goal.staging[2] = << {"SOLVABLE", "ERASE"}, 6 >>
    /\ run.job[1] = << {"SOLVABLE", "INSTALL", "FORCEBEST"}, 8 >>
    /\ run.job[2] = << {"SOLVABLE", "ERASE", "FORCEBEST"}, 6 >>
    /\ run.job[Len(run.job)] = << {"VERIFY", "SOLVABLE_ALL"}, 0 >>

-----------------------------------------------------------------------------
(* Selectors in the goal's staging calls (sltr2job).                       *)

MaxSltrStaged == 1

\* a HySelector: its six filters, each 0 for NULL or the one string of its
\* single HY_EQ match (names, dependencies and architectures are the pool's
\* ids; file 1 is a path some package owns, file 2 a path none owns;
\* reponame 1 is the repository of every package)
Sltr(name, provides, file, arch, evr, reponame) ==
    [f_name |-> name, f_provides |-> provides, f_file |-> file,
     f_arch |-> arch, f_evr |-> evr, f_reponame |-> reponame]

\* pool_str2id(pool, name, 0): 0 for a string the pool does not hold
pool_str2id(name) ==
    IF name \in {Solvable[p].name : p \in GoalPkgs} THEN name ELSE 0

\* str2archid: 0 for an unknown architecture
str2archid(arch) == IF arch \in {20, 21} THEN arch ELSE 0

\* pool_rel2id(pool, name, evr, flags, 1): the id of the relation
pool_rel2id(name, evr, flags) ==
    (name * 100 + evr) * 10 + (IF flags = "REL_ARCH" THEN 1 ELSE 2)

\* what one translation step leaves: its return value, the job_sltr queue,
\* and whether an assert stopped the process
SltrStep(ret, job, aborted) == [ret |-> ret, job |-> job, aborted |-> aborted]

\* assert((job->elements[i] & SOLVER_SELECTMASK) == SOLVER_SOLVABLE_NAME)
AllSolvableName(job) ==
    \A i \in 1..Len(job) : "SOLVABLE_NAME" \in job[i][1]

\* filter_name2job, HY_EQ
filter_name2job(f, r) ==
    IF f = 0 \/ pool_str2id(f) = 0 THEN r
    ELSE SltrStep("0", Append(r.job, <<{"SOLVABLE_NAME"}, pool_str2id(f)>>), FALSE)

\* filter_file2job: selection_make replaces the queue by the packages that
\* own the file and returns 0 when there are none
filter_file2job(f, r) ==
    IF r.ret # "0" \/ f = 0 THEN r
    ELSE IF f = 1 THEN SltrStep("0", << <<{"SOLVABLE_ONE_OF"}, 1>> >>, FALSE)
    ELSE SltrStep("1", <<>>, FALSE)

\* filter_provides2job, HY_EQ
filter_provides2job(f, r) ==
    IF r.ret # "0" \/ f = 0 THEN r
    ELSE SltrStep("0", Append(r.job, <<{"SOLVABLE_PROVIDES"}, f>>), FALSE)

\* filter_arch2job
filter_arch2job(f, r) ==
    IF r.ret # "0" \/ f = 0 THEN r
    ELSE IF str2archid(f) = 0
    THEN SltrStep("HIF_ERROR_INVALID_ARCHITECTURE", r.job, FALSE)
    ELSE IF ~AllSolvableName(r.job) THEN SltrStep("0", r.job, TRUE)
    ELSE SltrStep("0",
                  [i \in 1..Len(r.job) |->
                      <<r.job[i][1] \cup {"SETARCH"},
                        pool_rel2id(r.job[i][2], str2archid(f), "REL_ARCH")>>],
                  FALSE)

\* filter_evr2job, keyname HY_PKG_EVR
filter_evr2job(f, r) ==
    IF r.ret # "0" \/ r.aborted \/ f = 0 THEN r
    ELSE IF ~AllSolvableName(r.job) THEN SltrStep("0", r.job, TRUE)
    ELSE SltrStep("0",
                  [i \in 1..Len(r.job) |->
                      <<r.job[i][1] \cup {"SETEVR"},
                        pool_rel2id(r.job[i][2], f, "REL_EQ")>>],
                  FALSE)

\* filter_reponame2job: selection_filter keeps the packages of the
\* repository, which are all of them
filter_reponame2job(f, r) ==
    IF r.ret # "0" \/ r.aborted \/ f = 0 THEN r
    ELSE SltrStep("0",
                  [i \in 1..Len(r.job) |-> <<r.job[i][1] \cup {"SETREPO"}, r.job[i][2]>>],
                  FALSE)

any_opt_filter(sltr) == sltr.f_arch # 0 \/ sltr.f_evr # 0 \/ sltr.f_reponame # 0

any_req_filter(sltr) == sltr.f_name # 0 \/ sltr.f_provides # 0 \/ sltr.f_file # 0

\* the six translations of sltr2job in their order, on an empty job_sltr
SltrFilters(sltr) ==
    filter_reponame2job(sltr.f_reponame,
      filter_evr2job(sltr.f_evr,
        filter_arch2job(sltr.f_arch,
          filter_provides2job(sltr.f_provides,
            filter_file2job(sltr.f_file,
              filter_name2job(sltr.f_name, SltrStep("0", <<>>, FALSE)))))))

\* the final loop of sltr2job: job_sltr is pushed with the solver action
PushSltr(r, job, solver_action) ==
    IF r.ret # "0" \/ r.aborted THEN SltrStep(r.ret, job, r.aborted)
    ELSE SltrStep("0",
                  job \o [i \in 1..Len(r.job) |->
                            <<r.job[i][1] \cup {solver_action}, r.job[i][2]>>],
                  FALSE)

\* sltr2job with the test for the optional filters left out
sltr2job_NoOptTest(sltr, job, solver_action) ==
    IF ~any_req_filter(sltr)
    THEN SltrStep("HIF_ERROR_BAD_SELECTOR", job, FALSE)
    ELSE PushSltr(SltrFilters(sltr), job, solver_action)

\* sltr2job: the return value and the caller's job queue
sltr2job(sltr, job, solver_action) ==
    IF ~any_req_filter(sltr)
    THEN SltrStep(IF any_opt_filter(sltr) THEN "HIF_ERROR_BAD_SELECTOR" ELSE "0",
                  job, FALSE)
    ELSE PushSltr(SltrFilters(sltr), job, solver_action)

\* the selectors followed: none or one of name, provides and file, alone
\* and with the other three, known and unknown strings
Selectors ==
    { Sltr(0, 0, 0, 0, 0, 0),
      Sltr(0, 0, 0, 20, 0, 0), Sltr(0, 0, 0, 98, 0, 0),
      Sltr(0, 0, 0, 0, 1, 0),  Sltr(0, 0, 0, 0, 0, 1),
      Sltr(0, 0, 0, 20, 1, 1),
      Sltr(12, 0, 0, 0, 0, 0), Sltr(99, 0, 0, 0, 0, 0),
      Sltr(12, 0, 0, 20, 0, 0), Sltr(12, 0, 0, 98, 0, 0),
      Sltr(12, 0, 0, 0, 1, 0), Sltr(12, 0, 0, 0, 0, 1),
      Sltr(0, 40, 0, 0, 0, 0), Sltr(0, 40, 0, 20, 0, 0),
      Sltr(0, 0, 1, 0, 0, 0),  Sltr(0, 0, 2, 0, 0, 0) }

\* the axes a selector has set
AxesSet(sltr) ==
    {a \in {"name", "provides", "file", "arch", "evr", "reponame"} :
        CASE a = "name" -> sltr.f_name # 0
          [] a = "provides" -> sltr.f_provides # 0
          [] a = "file" -> sltr.f_file # 0
          [] a = "arch" -> sltr.f_arch # 0
          [] a = "evr" -> sltr.f_evr # 0
          [] a = "reponame" -> sltr.f_reponame # 0}

\* a staging call with a selector: the action bit is set, then sltr2job works
\* on goal->staging; whether sltr2job recomputes the sack's considered set
\* is not followed, the goal's sack has neither excludes nor includes
SltrStage(sltr, action, solver_action) ==
    /\ ~crashed
    /\ run.pc # "solve"
    /\ Len(sltr2job(sltr, goal.staging, solver_action).job) <= MaxSltrStaged
    /\ goal' = [goal EXCEPT !.actions = @ \cup {action},
                            !.staging = sltr2job(sltr, @, solver_action).job]
    /\ crashed' = sltr2job(sltr, goal.staging, solver_action).aborted
    /\ sltr_call' = [sltr |-> AxesSet(sltr), action |-> solver_action,
                     rc |-> sltr2job(sltr, goal.staging, solver_action).ret,
                     pushed |-> Len(sltr2job(sltr, goal.staging, solver_action).job)
                                - Len(goal.staging)]
    /\ run' = [run EXCEPT !.pc = "idle"]
    /\ UNCHANGED <<poss, py, txn, staged_call, result_map, queries, pkg_excludes,
                   pkg_includes, considered, considered_uptodate, gsack>>

\* hy_goal_install_selector
HyGoalInstallSelector ==
    \E sltr \in Selectors : SltrStage(sltr, "INSTALL", "INSTALL")

\* hy_goal_erase_selector, hy_goal_erase_selector_flags(0)
HyGoalEraseSelector ==
    \E sltr \in Selectors : SltrStage(sltr, "ERASE", "ERASE")

\* hy_goal_upgrade_to_selector
HyGoalUpgradeToSelector ==
    \E sltr \in Selectors :
        SltrStage(sltr, "UPGRADE", IF sltr.f_evr = 0 THEN "UPDATE" ELSE "INSTALL")

NextSltr ==
    \/ HyGoalInstallSelector
    \/ HyGoalEraseSelector
    \/ HyGoalUpgradeToSelector

SpecSltr == InitJob /\ [][NextSltr]_vars

\* the last staging call was made with a selector
SltrUsed == sltr_call.action # "none"

RequiredAxes == {"name", "provides", "file"}

\* C21 as stated: a selector without name, provides and file is answered
\* with BadSelector, the selector without any axis included, and only a
\* selector with one of the three is answered with success
C21_BadSelectorWithoutRequiredAxis ==
    SltrUsed =>
        /\ (sltr_call.sltr \cap RequiredAxes = {}
               => sltr_call.rc = "HIF_ERROR_BAD_SELECTOR")
        /\ (sltr_call.rc = "0" => sltr_call.sltr \cap RequiredAxes # {})

\* C21: a selector without name, provides and file is answered with
\* BadSelector exactly when it has one of arch, evr and reponame set; the
\* selector with no axis set is answered with success and stages nothing; a
\* call answered with an error stages nothing
C21_BadSelectorWithoutRequiredAxisButOptional ==
    SltrUsed =>
        /\ (sltr_call.sltr \cap RequiredAxes = {} =>
              /\ sltr_call.rc = (IF sltr_call.sltr = {} THEN "0"
                                 ELSE "HIF_ERROR_BAD_SELECTOR")
              /\ sltr_call.pushed = 0)
        /\ (sltr_call.rc = "HIF_ERROR_BAD_SELECTOR" =>
              sltr_call.sltr # {} /\ sltr_call.sltr \cap RequiredAxes = {})
        /\ (sltr_call.rc # "0" => sltr_call.pushed = 0)

\* the selector with no axis at all was used and answered with success
C21_Witness ==
    /\ SltrUsed
    /\ sltr_call.sltr = {}
    /\ sltr_call.rc = "0"
    /\ sltr_call.pushed = 0

-----------------------------------------------------------------------------
(* The transaction driver (hif-transaction.c).                             *)

\* the packages of the driver's world: 61 and 63 are installed, 62 is the
\* newer 61, 64 the newer 63, 65 a kernel, 66 a new package, 67 and 68 are
\* package files given on the command line
TxnPkgs == 61..68

\* the packages of the repositories and of the system
RepoPkgs == 61..66

\* HY_CMDLINE_REPO_NAME
HY_CMDLINE_REPO_NAME == "@commandline"

\* hif_context_get_cache_dir: the configured cachedir, a string kept as the
\* sequence of its characters
CacheDir == <<"/", "c">>

\* the repositories: their gpgcheck setting
Repos == [r1 |-> [gpgcheck |-> TRUE], r2 |-> [gpgcheck |-> FALSE]]

\* the attributes of a HifPackage the driver reads: name, whether it is
\* installed or install-only, the name of its repository, the size of its
\* download; the file of 67 lies in /h, the file of 68 in /cx, a directory
\* beside the cachedir /c
HifPackage ==
    [id \in TxnPkgs |->
        CASE id = 61 -> [name |-> "a", installed |-> TRUE, installonly |-> FALSE,
                         reponame |-> "@System", size |-> 0]
          [] id = 62 -> [name |-> "a", installed |-> FALSE, installonly |-> FALSE,
                         reponame |-> "r1", size |-> 2]
          [] id = 63 -> [name |-> "b", installed |-> TRUE, installonly |-> FALSE,
                         reponame |-> "@System", size |-> 0]
          [] id = 64 -> [name |-> "b", installed |-> FALSE, installonly |-> FALSE,
                         reponame |-> "r2", size |-> 1]
          [] id = 65 -> [name |-> "kernel", installed |-> FALSE, installonly |-> TRUE,
                         reponame |-> "r2", size |-> 1]
          [] id = 66 -> [name |-> "c", installed |-> FALSE, installonly |-> FALSE,
                         reponame |-> "r2", size |-> 1]
          [] id = 67 -> [name |-> "d", installed |-> FALSE, installonly |-> FALSE,
                         reponame |-> HY_CMDLINE_REPO_NAME, size |-> 1]
          [] id = 68 -> [name |-> "e", installed |-> FALSE, installonly |-> FALSE,
                         reponame |-> HY_CMDLINE_REPO_NAME, size |-> 1]]

\* hif_package_get_location of a package of the command line: the path of
\* the file it was read from
hif_package_get_location(pkg) ==
    IF pkg = 67 THEN <<"/", "h", "/", "d">> ELSE <<"/", "c", "x", "/", "e">>

\* hif_package_get_filename once hif_transaction_ensure_repo has run: the
\* location for a package of the command line, else the file of the package
\* in the packages of its repository, below the cachedir
hif_package_get_filename(pkg) ==
    IF HifPackage[pkg].reponame = HY_CMDLINE_REPO_NAME
    THEN hif_package_get_location(pkg)
    ELSE CacheDir \o <<"/", HifPackage[pkg].reponame, "/", HifPackage[pkg].name>>

\* hif_package_get_repo(pkg) != NULL: hif_transaction_ensure_repo sets the
\* repository of the packages that are not of the command line
has_repo(pkg) == HifPackage[pkg].reponame \in DOMAIN Repos

\* g_str_has_prefix
g_str_has_prefix(str, prefix) ==
    /\ Len(prefix) <= Len(str)
    /\ SubSeq(str, 1, Len(prefix)) = prefix

\* a solved goal as the driver sees it: the packages of
\* hif_goal_get_packages(INSTALL, REINSTALL, DOWNGRADE, UPDATE) and of
\* hif_goal_get_packages(OBSOLETE, REMOVE) in their order, the action of each
\* install, transaction_all_obs_pkgs of each install, hy_goal_list_obsoleted,
\* and the packages hy_goal_get_reason answers HY_REASON_USER for
SolvedGoal(install, action, remove, obs, obsoleted, user) ==
    [install |-> install, action |-> action, remove |-> remove, obs |-> obs,
     obsoleted |-> obsoleted, user |-> user,
     erased |-> Range(remove), installs |-> Range(install)]

NoObs == [p \in TxnPkgs |-> <<>>]

NoAction == [p \in TxnPkgs |-> "UNKNOWN"]

\* a package object as kept in the driver's arrays: hif_package_get_action
\* is a field of the object
PkgObj(id, action) == [id |-> id, action |-> action]

\* hif_goal_get_packages(INSTALL, REINSTALL, DOWNGRADE, UPDATE)
goal_install_packages(g) ==
    [i \in 1..Len(g.trans.install) |->
        PkgObj(g.trans.install[i], g.trans.action[g.trans.install[i]])]

\* hif_goal_get_packages(OBSOLETE, REMOVE)
goal_remove_packages(g) ==
    [i \in 1..Len(g.trans.remove) |->
        PkgObj(g.trans.remove[i],
               IF g.trans.remove[i] \in g.trans.obsoleted THEN "OBSOLETE" ELSE "REMOVE")]

\* hy_goal_list_obsoleted_by_package
hy_goal_list_obsoleted_by_package(g, pkg) == g.trans.obs[pkg]

\* hy_goal_get_reason(goal, pkg) == HY_REASON_USER
hy_goal_get_reason_user(g, pkg) == pkg \in g.trans.user

\* hif_package_array_get_download_size
RECURSIVE hif_package_array_get_download_size(_)
hif_package_array_get_download_size(pkgs) ==
    IF pkgs = <<>> THEN 0
    ELSE HifPackage[Head(pkgs)].size + hif_package_array_get_download_size(Tail(pkgs))

\* hif_transaction_set_flags
hif_transaction_set_flags(t, flags) == [t EXCEPT !.flags = flags]

\* a public call returns
TxnReturn(t, call, ret, error) ==
    [t EXCEPT !.pc = "idle", !.call = call, !.ret = ret, !.error = error,
              !.cb = "none"]

\* hif_transaction_depsolve on a goal that has a solution: the installs that
\* are not of the command line and whose file is not valid in the cache are
\* to be downloaded
hif_transaction_depsolve(t, g) ==
    TxnReturn([t EXCEPT !.pkgs_to_download =
                 SelectSeq(g.trans.install,
                           LAMBDA p : /\ HifPackage[p].reponame # HY_CMDLINE_REPO_NAME
                                      /\ p \notin t.cache)],
              "depsolve", TRUE, "none")

\* hif_transaction_check_free_space: TRUE or the error
hif_transaction_check_free_space(t) ==
    IF t.free_space < hif_package_array_get_download_size(t.pkgs_to_download)
    THEN "HIF_ERROR_NO_SPACE"
    ELSE "none"

\* hif_transaction_download without the check of the free space; a download
\* that does not fit fails in hif_package_array_download
hif_transaction_download_NoCheck(t) ==
    IF t.free_space < hif_package_array_get_download_size(t.pkgs_to_download)
    THEN TxnReturn(t, "download", FALSE, "hif_package_array_download")
    ELSE TxnReturn([t EXCEPT !.cache = @ \cup Range(t.pkgs_to_download),
                             !.free_space = @ - hif_package_array_get_download_size(
                                                    t.pkgs_to_download)],
                   "download", TRUE, "none")

\* hif_transaction_download: the check of the free space, then the download
\* of the list, whose files take their size of the free space
hif_transaction_download(t) ==
    IF hif_transaction_check_free_space(t) # "none"
    THEN TxnReturn(t, "download", FALSE, hif_transaction_check_free_space(t))
    ELSE TxnReturn([t EXCEPT !.cache = @ \cup Range(t.pkgs_to_download),
                             !.free_space = @ - hif_package_array_get_download_size(
                                                    t.pkgs_to_download)],
                   "download", TRUE, "none")

\* ret = FALSE with the error set, on the way to out
Fail(t, error) == [t EXCEPT !.ret = FALSE, !.error = error]

\* the check of one file that ignores every invalid signature
untrusted_file_error_IgnoreAll(t, pkg) ==
    IF pkg \notin t.cache THEN "hif_keyring_check_untrusted_file" ELSE "none"

\* hif_transaction_check_untrusted, the check of the file of one package:
\* a file that cannot be read, an invalid signature in a repository with
\* gpgcheck, an invalid signature under ONLY_TRUSTED, or "none"
untrusted_file_error(t, pkg) ==
    IF pkg \notin t.cache THEN "hif_keyring_check_untrusted_file"
    ELSE IF pkg \in t.bad_sig /\ has_repo(pkg)
                                /\ Repos[HifPackage[pkg].reponame].gpgcheck
    THEN "HIF_ERROR_FILE_INVALID"
    ELSE IF pkg \in t.bad_sig /\ "ONLY_TRUSTED" \in t.flags
    THEN "HIF_ERROR_GPG_SIGNATURE_INVALID"
    ELSE "none"

\* hif_transaction_check_untrusted from package i of the install list on:
\* "none" or the error of the first package that fails
RECURSIVE check_untrusted_from(_, _, _, _)
check_untrusted_from(t, install, i, fail) ==
    IF i > Len(install) THEN "none"
    ELSE IF fail = "ensure_repo" THEN "HIF_ERROR_INTERNAL_ERROR"
    ELSE IF untrusted_file_error(t, install[i]) # "none"
    THEN untrusted_file_error(t, install[i])
    ELSE check_untrusted_from(t, install, i + 1, fail)

hif_transaction_check_untrusted(t, g, fail) ==
    check_untrusted_from(t, g.trans.install, 1, fail)

\* hif_transaction_reset without rpmtsEmpty and rpmtsSetNotifyCallback
hif_transaction_reset_KeepTs(t) ==
    [t EXCEPT !.has_child = FALSE,
              !.pkgs_to_download = <<>>,
              !.has_install = FALSE, !.install = <<>>,
              !.has_remove = FALSE, !.remove = <<>>,
              !.has_remove_helper = FALSE, !.remove_helper = <<>>,
              !.has_hash = FALSE, !.erased_by_package_hash = <<>>]

\* hif_transaction_reset
hif_transaction_reset(t) ==
    [t EXCEPT !.has_child = FALSE,
              !.pkgs_to_download = <<>>,
              !.ts = EmptyTs,
              !.has_install = FALSE, !.install = <<>>,
              !.has_remove = FALSE, !.remove = <<>>,
              !.has_remove_helper = FALSE, !.remove_helper = <<>>,
              !.has_hash = FALSE, !.erased_by_package_hash = <<>>]

\* commit, the label out without the release of the locks
commit_out_NoRelease(t) ==
    IF t.pc = "crashed" THEN t
    ELSE TxnReturn(hif_transaction_reset(t), "commit", t.ret, t.error)

\* commit, the label out: reset, release of the locks, return of ret
commit_out(t) ==
    IF t.pc = "crashed" THEN t
    ELSE TxnReturn([hif_transaction_reset(t) EXCEPT !.lock = FALSE],
                   "commit", t.ret, t.error)

\* commit: hif_state_take_lock
commit_take_lock(t, fail) ==
    IF fail = "hif_state_take_lock"
    THEN Fail([t EXCEPT !.call = "commit", !.cb = "none"], fail)
    ELSE [t EXCEPT !.call = "commit", !.cb = "none", !.ret = TRUE,
                   !.error = "none", !.lock = TRUE]

\* commit: the steps of the state, the keys, the trust check, the root and
\* the notify callback
commit_checks(t, g, fail) ==
    IF ~t.ret THEN t
    ELSE IF fail \in {"hif_state_set_steps", "hif_keyring_add_public_keys"}
    THEN Fail(t, fail)
    ELSE IF hif_transaction_check_untrusted(t, g, fail) # "none"
    THEN Fail(t, hif_transaction_check_untrusted(t, g, fail))
    ELSE IF fail = "rpmtsSetRootDir" THEN Fail(t, "HIF_ERROR_INTERNAL_ERROR")
    ELSE [t EXCEPT !.ts.notify = TRUE]

is_update(action) == action \in {"UPDATE", "DOWNGRADE"}

\* the first n packages of install as hif_rpmts_add_install_filename adds
\* them: the package, allow_untrusted, is_update
TsInstalls(t, install, n) ==
    [i \in 1..n |-> <<"install", install[i].id, "ONLY_TRUSTED" \notin t.flags,
                      is_update(install[i].action)>>]

\* commit that adds the installs whatever the steps before it returned
commit_install_Always(t, g, fail) ==
    [t EXCEPT !.has_install = TRUE,
              !.install = goal_install_packages(g),
              !.ts.elements = @ \o TsInstalls(t, goal_install_packages(g),
                                              Len(g.trans.install))]

\* commit: add things to install; a failing hif_rpmts_add_install_filename
\* is that of the last package
commit_install(t, g, fail) ==
    IF ~t.ret THEN t
    ELSE IF fail = "hif_rpmts_add_install_filename" /\ g.trans.install # <<>>
    THEN Fail([t EXCEPT !.has_install = TRUE,
                        !.install = goal_install_packages(g),
                        !.ts.elements = @ \o TsInstalls(t, goal_install_packages(g),
                                                        Len(g.trans.install) - 1)],
              fail)
    ELSE IF fail = "hif_state_done"
    THEN Fail([t EXCEPT !.has_install = TRUE,
                        !.install = goal_install_packages(g),
                        !.ts.elements = @ \o TsInstalls(t, goal_install_packages(g),
                                                        Len(g.trans.install))],
              fail)
    ELSE [t EXCEPT !.has_install = TRUE,
                   !.install = goal_install_packages(g),
                   !.ts.elements = @ \o TsInstalls(t, goal_install_packages(g),
                                                   Len(g.trans.install))]

\* hif_find_pkg_from_name(array, pkgname) != NULL
hif_find_pkg_from_name(array, pkgname) ==
    \E i \in 1..Len(array) : HifPackage[array[i].id].name = pkgname

\* the remove list with the packages that are being upgraded relabelled
RemoveLabelled(t, remove) ==
    [i \in 1..Len(remove) |->
        IF hif_find_pkg_from_name(t.install, HifPackage[remove[i].id].name)
        THEN PkgObj(remove[i].id, "CLEANUP")
        ELSE remove[i]]

\* commit: add things to remove; a failing hif_rpmts_add_remove_pkg is that
\* of the first package
commit_remove(t, g, fail) ==
    IF ~t.ret THEN t
    ELSE IF fail = "hif_rpmts_add_remove_pkg" /\ g.trans.remove # <<>>
    THEN Fail([t EXCEPT !.has_remove = TRUE, !.remove = goal_remove_packages(g)],
              fail)
    ELSE [t EXCEPT !.has_remove = TRUE,
                   !.remove = RemoveLabelled(t, goal_remove_packages(g)),
                   !.ts.elements = @ \o [i \in 1..Len(g.trans.remove) |->
                                           <<"remove", g.trans.remove[i]>>]]

\* g_ptr_array_index(pkglist, i) for the install at place i of the install
\* list (the first is place 1): past the end of pkglist the word read is
\* whatever the memory holds, oob
ObsRead(pkglist, i, oob) == IF i <= Len(pkglist) THEN pkglist[i] ELSE oob

\* the inner loops of commit read past the end of a pkglist, for an install
\* with one of the actions
ReadsPastEnd(t, g, actions) ==
    \E i \in 1..Len(t.install) :
        /\ t.install[i].action \in actions
        /\ hy_goal_list_obsoleted_by_package(g, t.install[i].id) # <<>>
        /\ i > Len(hy_goal_list_obsoleted_by_package(g, t.install[i].id))

\* the remove-helper loop from place i of the install list on
RECURSIVE remove_helper_from(_, _, _, _)
remove_helper_from(t, g, i, oob) ==
    IF i > Len(t.install) THEN <<>>
    ELSE (IF ~is_update(t.install[i].action) THEN <<>>
          ELSE [j \in 1..Len(hy_goal_list_obsoleted_by_package(g, t.install[i].id)) |->
                  PkgObj(ObsRead(hy_goal_list_obsoleted_by_package(g, t.install[i].id),
                                 i, oob),
                         "CLEANUP")])
         \o remove_helper_from(t, g, i + 1, oob)

\* commit: the remove helper; a pointer read past the end that is no object
\* (oob = 0) ends the process
commit_remove_helper(t, g, oob) ==
    IF ~t.ret THEN t
    ELSE IF ReadsPastEnd(t, g, {"UPDATE", "DOWNGRADE"}) /\ oob = 0
    THEN [t EXCEPT !.pc = "crashed"]
    ELSE [t EXCEPT !.has_remove_helper = TRUE,
                   !.remove_helper = remove_helper_from(t, g, 1, oob)]

\* the places of the install list whose package gets an entry in
\* erased_by_package_hash
HashPlaces(t, g, oob) ==
    {i \in 1..Len(t.install) :
        /\ t.install[i].action \in {"UPDATE", "DOWNGRADE", "REINSTALL"}
        /\ hy_goal_list_obsoleted_by_package(g, t.install[i].id) # <<>>
        /\ ObsRead(hy_goal_list_obsoleted_by_package(g, t.install[i].id), i, oob)
              \notin g.trans.obsoleted}

\* commit: map updated packages to their previous versions
commit_hash(t, g, oob) ==
    IF ~t.ret \/ t.pc = "crashed" THEN t
    ELSE IF ReadsPastEnd(t, g, {"UPDATE", "DOWNGRADE", "REINSTALL"}) /\ oob = 0
    THEN [t EXCEPT !.pc = "crashed"]
    ELSE [t EXCEPT !.has_hash = TRUE,
                   !.erased_by_package_hash =
                      [k \in {t.install[i].id : i \in HashPlaces(t, g, oob)} |->
                          ObsRead(hy_goal_list_obsoleted_by_package(g, k),
                                  CHOOSE i \in 1..Len(t.install) : t.install[i].id = k,
                                  oob)]]

\* commit: rpmtsOrder and the test transaction
commit_test(t, fail) ==
    IF ~t.ret \/ t.pc = "crashed" THEN t
    ELSE IF fail = "hif_rpmts_look_for_problems"
    THEN Fail([t EXCEPT !.step = "IGNORE"], fail)
    ELSE [t EXCEPT !.step = "IGNORE"]

\* commit: rpmtsSetFlags and the step before rpmtsRun
commit_run(t) ==
    IF ~t.ret \/ t.pc = "crashed" THEN t
    ELSE IF "TEST" \in t.flags
    THEN [t EXCEPT !.ts.flags = {"RPMTRANS_FLAG_TEST"}, !.step = "IGNORE",
                   !.pc = "run"]
    ELSE [t EXCEPT !.ts.flags = {}, !.step = "STARTED", !.pc = "run"]

\* commit up to its call of rpmtsRun, or up to its return when it fails
\* before
commit_to_run(t) == IF t.pc = "run" THEN t ELSE commit_out(t)

\* commit from its entry to its call of rpmtsRun, or to the label out when
\* a step fails before: the lock, the checks, the installs, the removes,
\* the helper and the hash, the ordering and the test transaction
commit_until_run(t, g, fail, oob) ==
    commit_run(
      commit_test(
        commit_hash(
          commit_remove_helper(
            commit_remove(
              commit_install(
                commit_checks(commit_take_lock(t, fail), g, fail),
                g, fail),
              g, fail),
            g, oob),
          g, oob),
        fail))

\* hif_transaction_commit until rpmtsRun is entered
commit_begin(t, g, fail, oob) == commit_to_run(commit_until_run(t, g, fail, oob))

\* the place of the package in the array, 0 when hif_find_pkg_from_header
\* and the other finders return NULL
FindPkg(array, pkg) ==
    IF \E i \in 1..Len(array) : array[i].id = pkg
    THEN CHOOSE i \in 1..Len(array) : array[i].id = pkg
    ELSE 0

\* hif_transaction_ts_progress_cb, RPMCALLBACK_INST_START
cb_inst_start(t, pkg) ==
    IF FindPkg(t.install, pkg) = 0 THEN [t EXCEPT !.pc = "crashed"]
    ELSE [t EXCEPT !.pkgid = @ \cup {pkg}, !.step = "WRITING", !.has_child = TRUE]

\* RPMCALLBACK_UNINST_START
cb_uninst_start(t, pkg) ==
    IF FindPkg(t.remove, pkg) = 0 /\ FindPkg(t.remove_helper, pkg) = 0
    THEN [t EXCEPT !.step = "WRITING"]
    ELSE [t EXCEPT !.step = "WRITING", !.has_child = TRUE]

\* RPMCALLBACK_INST_PROGRESS without the look at the step
cb_inst_progress_NoStepCheck(t, pkg, amount) ==
    [t EXCEPT !.report.speed = <<amount, t.last_progress>>,
              !.last_progress = amount,
              !.report.percentage = IF t.has_child THEN amount ELSE @,
              !.report.package_progress =
                  IF FindPkg(t.install, pkg) = 0 THEN @
                  ELSE <<pkg, "INSTALL", amount>>]

\* RPMCALLBACK_TRANS_PROGRESS, RPMCALLBACK_INST_PROGRESS: the speed is kept
\* as the two operands of its numerator, the percentage as the amount
cb_inst_progress(t, pkg, amount) ==
    IF t.step \in {"PREPARING", "IGNORE"} THEN t
    ELSE [t EXCEPT !.report.speed = <<amount, t.last_progress>>,
                   !.last_progress = amount,
                   !.report.percentage = IF t.has_child THEN amount ELSE @,
                   !.report.package_progress =
                       IF FindPkg(t.install, pkg) = 0 THEN @
                       ELSE <<pkg, "INSTALL", amount>>]

\* RPMCALLBACK_UNINST_PROGRESS
cb_uninst_progress(t, pkg, amount) ==
    IF t.step \in {"PREPARING", "IGNORE"} THEN t
    ELSE [t EXCEPT !.report.percentage = IF t.has_child THEN amount ELSE @,
                   !.report.package_progress =
                       IF FindPkg(t.remove, pkg) # 0
                       THEN <<pkg, IF t.remove[FindPkg(t.remove, pkg)].action = "UNKNOWN"
                                   THEN "REMOVE"
                                   ELSE t.remove[FindPkg(t.remove, pkg)].action,
                              amount>>
                       ELSE IF FindPkg(t.remove_helper, pkg) # 0
                       THEN <<pkg, t.remove_helper[FindPkg(t.remove_helper, pkg)].action,
                              amount>>
                       ELSE @]

\* RPMCALLBACK_TRANS_START
cb_trans_start(t) ==
    IF t.step = "IGNORE" THEN t ELSE [t EXCEPT !.step = "PREPARING"]

\* hif_transaction_ts_progress_cb(what) for the package of the header and
\* the amount; the other kinds of callback change nothing that is followed
hif_transaction_ts_progress_cb(t, what, pkg, amount) ==
    [(CASE what = "INST_START" -> cb_inst_start(t, pkg)
        [] what = "UNINST_START" -> cb_uninst_start(t, pkg)
        [] what \in {"TRANS_PROGRESS", "INST_PROGRESS"} -> cb_inst_progress(t, pkg, amount)
        [] what = "UNINST_PROGRESS" -> cb_uninst_progress(t, pkg, amount)
        [] what = "TRANS_START" -> cb_trans_start(t)
        [] OTHER -> t)
     EXCEPT !.cb = what]

\* hif_transaction_get_propagated_reason
hif_transaction_get_propagated_reason(t, g, pkg) ==
    IF HifPackage[pkg.id].installonly THEN "user"
    ELSE IF pkg.action \in {"DOWNGRADE", "REINSTALL", "UPDATE"}
    THEN (IF pkg.id \in DOMAIN t.erased_by_package_hash
          THEN (IF t.db[t.erased_by_package_hash[pkg.id]] # "none"
                THEN t.db[t.erased_by_package_hash[pkg.id]]
                ELSE "dep")
          ELSE "dep")
    ELSE IF hy_goal_get_reason_user(g, pkg.id) THEN "user"
    ELSE "dep"

\* hif_transaction_write_yumdb, the new entries from place i of the install
\* list on: hif_transaction_write_yumdb_install_item of each
RECURSIVE write_yumdb_install_from(_, _, _)
write_yumdb_install_from(t, g, i) ==
    IF i > Len(t.install) THEN t
    ELSE IF t.install[i].id \notin t.pkgid THEN Fail(t, "HIF_ERROR_INTERNAL_ERROR")
    ELSE write_yumdb_install_from(
            [t EXCEPT !.db[t.install[i].id] =
                         hif_transaction_get_propagated_reason(t, g, t.install[i])],
            g, i + 1)

\* hif_transaction_write_yumdb: the new entries, then hif_db_remove_all for
\* remove and remove_helper
hif_transaction_write_yumdb(t, g) ==
    IF ~write_yumdb_install_from(t, g, 1).ret
    THEN write_yumdb_install_from(t, g, 1)
    ELSE [write_yumdb_install_from(t, g, 1) EXCEPT
            !.db = [p \in TxnPkgs |->
                      IF \E i \in 1..Len(t.remove) : t.remove[i].id = p THEN "none"
                      ELSE IF \E i \in 1..Len(t.remove_helper) : t.remove_helper[i].id = p
                      THEN "none"
                      ELSE @[p]]]

\* the installs whose filename has the cachedir as a prefix
DeletedInstalls(t) ==
    SelectSeq([i \in 1..Len(t.install) |-> t.install[i].id],
              LAMBDA p : g_str_has_prefix(hif_package_get_filename(p), CacheDir))

\* hif_transaction_delete_packages: the file of each install whose filename
\* has the cachedir as a prefix is deleted, which frees its size if the
\* file is on the filesystem of the cachedir
hif_transaction_delete_packages(t) ==
    [t EXCEPT !.cache = @ \ Range(DeletedInstalls(t)),
              !.free_space = @ + hif_package_array_get_download_size(
                                    SelectSeq(DeletedInstalls(t), has_repo))]

\* commit: what follows either rpmtsRun
commit_ran(t, rc, problems) ==
    IF rc < 0 THEN Fail(t, "HIF_ERROR_INTERNAL_ERROR")
    ELSE IF rc > 0 /\ problems THEN Fail(t, "hif_rpmts_look_for_problems")
    ELSE t

\* commit after the real run without the look at the step
commit_written_NoStepCheck(t, fail) ==
    IF ~t.ret THEN t
    ELSE IF fail = "hif_state_done" THEN Fail(t, fail)
    ELSE t

\* commit after the real run: the step is looked at
commit_written(t, fail) ==
    IF ~t.ret THEN t
    ELSE IF t.step # "WRITING" THEN Fail(t, "HIF_ERROR_INTERNAL_ERROR")
    ELSE IF fail = "hif_state_done" THEN Fail(t, fail)
    ELSE t

\* commit: write to the yumDB
commit_yumdb(t, g) == IF ~t.ret THEN t ELSE hif_transaction_write_yumdb(t, g)

\* commit: remove the files we downloaded, all sacks are invalid now
commit_cleanup(t, keep_cache, fail) ==
    IF ~t.ret THEN t
    ELSE IF /\ ~keep_cache
            /\ fail = "hif_transaction_delete_packages"
            /\ DeletedInstalls(t) # <<>>
    THEN Fail(t, fail)
    ELSE [(IF keep_cache THEN t ELSE hif_transaction_delete_packages(t))
          EXCEPT !.invalidated = TRUE]

\* commit after the run in test mode
commit_tested(t, fail) ==
    IF ~t.ret THEN t
    ELSE IF fail = "hif_state_done" THEN Fail(t, fail)
    ELSE t

\* commit after the run, whatever the TEST flag, up to the write of the
\* reason store
commit_end_AlwaysWrites(t, g, rc, problems, keep_cache, fail) ==
    commit_out(
      commit_cleanup(
        commit_yumdb(commit_written(commit_ran(t, rc, problems), fail), g),
        keep_cache, fail))

\* commit from the return of rpmtsRun to the label out: in test mode the
\* return after the run, else the check of the step, the write of the
\* reason store, the cleanup of the cache and the invalidation
commit_from_run(t, g, rc, problems, keep_cache, fail) ==
    IF "TEST" \in t.flags
    THEN commit_tested(commit_ran(t, rc, problems), fail)
    ELSE commit_cleanup(
           commit_yumdb(commit_written(commit_ran(t, rc, problems), fail), g),
           keep_cache, fail)

\* hif_transaction_commit from the return of rpmtsRun on
commit_end(t, g, rc, problems, keep_cache, fail) ==
    commit_out(commit_from_run(t, g, rc, problems, keep_cache, fail))

\* the solved goals followed: an update (62 for 61), an update behind a new
\* package, an update that also obsoletes 63, a kernel, a removal, an update
\* from the repository without gpgcheck, a package file of the command line
\* with a package of a repository, a package file of the command line that
\* lies beside the cachedir
Transactions ==
    { SolvedGoal(<<62>>, [NoAction EXCEPT ![62] = "UPDATE"], <<>>,
                 [NoObs EXCEPT ![62] = <<61>>], {}, {62}),
      SolvedGoal(<<66, 62>>, [NoAction EXCEPT ![66] = "INSTALL", ![62] = "UPDATE"], <<>>,
                 [NoObs EXCEPT ![62] = <<61>>], {}, {62}),
      SolvedGoal(<<66, 62>>, [NoAction EXCEPT ![66] = "INSTALL", ![62] = "UPDATE"], <<63>>,
                 [NoObs EXCEPT ![62] = <<61, 63>>], {63}, {62}),
      SolvedGoal(<<65>>, [NoAction EXCEPT ![65] = "INSTALL"], <<>>, NoObs, {}, {}),
      SolvedGoal(<<>>, NoAction, <<63>>, NoObs, {}, {63}),
      SolvedGoal(<<64>>, [NoAction EXCEPT ![64] = "UPDATE"], <<>>,
                 [NoObs EXCEPT ![64] = <<63>>], {}, {}),
      SolvedGoal(<<67, 64>>, [NoAction EXCEPT ![67] = "INSTALL", ![64] = "INSTALL"],
                 <<>>, NoObs, {}, {67}),
      SolvedGoal(<<68>>, [NoAction EXCEPT ![68] = "INSTALL"], <<>>, NoObs, {}, {68}) }

\* the flags given to hif_transaction_set_flags
TxnFlags == { {}, {"TEST"}, {"ONLY_TRUSTED"} }

\* the calls of commit that fail before rpmtsRun, "none" for none
BeginFails ==
    {"none", "hif_state_take_lock", "hif_keyring_add_public_keys",
     "rpmtsSetRootDir", "hif_rpmts_add_install_filename",
     "hif_rpmts_add_remove_pkg", "hif_rpmts_look_for_problems"}

\* a goal with a solution, a driver that was just created, a reason store
\* with entries for the installed packages, some free space, and files that
\* have valid signatures or not
InitTxn ==
    /\ queries = [q \in QueryIds |-> hy_query_create_flags({})]
    /\ pkg_excludes = {}
    /\ pkg_includes = {}
    /\ considered = [set |-> FALSE, map |-> {}]
    /\ considered_uptodate = FALSE
    /\ crashed = FALSE
    /\ run = RunIdle
    /\ gsack = NoGoalSack
    /\ staged_call = NoCall
    /\ result_map = [q \in QueryIds |-> 0]
    /\ sltr_call = NoSltrCall
    /\ poss = NoPoss
    /\ py = PyIdle
    /\ \E trans \in Transactions :
          goal = [hy_goal_create EXCEPT !.has_solv = TRUE, !.has_trans = TRUE,
                                        !.trans = trans]
    /\ \E reason \in {"user", "none"}, free \in {1, 4}, bad \in {{}, {62, 64}} :
          txn = [hif_transaction_new EXCEPT
                    !.db = [@ EXCEPT ![61] = reason, ![63] = "dep"],
                    !.cache = {67, 68},
                    !.free_space = free, !.bad_sig = bad]

\* a step of the driver
TxnStep(t) ==
    /\ ~crashed
    /\ txn' = t
    /\ crashed' = (t.pc = "crashed")
    /\ UNCHANGED <<poss, py, sltr_call, staged_call, result_map, queries, pkg_excludes,
                   pkg_includes, considered, considered_uptodate, goal, run, gsack>>

HifTransactionSetFlags ==
    \E flags \in TxnFlags :
        /\ txn.pc = "idle"
        /\ flags # txn.flags
        /\ TxnStep(hif_transaction_set_flags(txn, flags))

HifTransactionDepsolve ==
    /\ txn.pc = "idle"
    /\ TxnStep(hif_transaction_depsolve(txn, goal))

HifTransactionDownload ==
    /\ txn.pc = "idle"
    /\ TxnStep(hif_transaction_download(txn))

\* hif_transaction_commit is called and runs up to rpmtsRun or to its return;
\* oob matters only for a goal that makes the loops read past the end of a
\* pkglist
HifTransactionCommit ==
    \E fail \in BeginFails, oob \in RepoPkgs \cup {0} :
        /\ txn.pc = "idle"
        /\ oob # 0 => \E i \in 1..Len(goal.trans.install) :
                         /\ goal.trans.obs[goal.trans.install[i]] # <<>>
                         /\ i > Len(goal.trans.obs[goal.trans.install[i]])
        /\ TxnStep(commit_begin(txn, goal, fail, oob))

\* rpm calls back while rpmtsRun is under way
RpmCallbackStart ==
    \E what \in {"TRANS_START", "INST_START", "UNINST_START"}, pkg \in TxnPkgs :
        /\ txn.pc = "run"
        /\ what = "INST_START" => FindPkg(txn.install, pkg) # 0
        /\ what = "UNINST_START" => HifPackage[pkg].installed
        /\ TxnStep(hif_transaction_ts_progress_cb(txn, what, pkg, 0))

\* rpmtsRun returns and commit runs to its end
RpmtsRunReturns ==
    \E rc \in {-1, 0, 1}, problems \in BOOLEAN, keep_cache \in BOOLEAN,
       fail \in {"none", "hif_state_done", "hif_transaction_delete_packages"} :
        /\ txn.pc = "run"
        /\ problems => rc > 0
        /\ TxnStep(commit_end(txn, goal, rc, problems, keep_cache, fail))

NextTxn ==
    \/ HifTransactionSetFlags
    \/ HifTransactionDepsolve
    \/ HifTransactionDownload
    \/ HifTransactionCommit
    \/ RpmCallbackStart
    \/ RpmtsRunReturns

SpecTxn == InitTxn /\ [][NextTxn]_vars

-----------------------------------------------------------------------------
(* Properties of the transaction driver.                                   *)

\* hif_transaction_commit has returned and nothing was called since
CommitReturned == txn.pc = "idle" /\ txn.call = "commit"

\* C22: commit takes the rpmdb lock as its first step and holds it while it
\* is inside rpmtsRun; once commit has returned, with success or from any of
\* its failure exits, the failed take of the lock included, the lock is not
\* held
C22_LockHeldInCommitReleasedOnReturn ==
    /\ txn.pc = "run" => txn.lock
    /\ txn.pc = "idle" => ~txn.lock
    /\ txn.pc = "idle" =>
          \A fail \in BeginFails :
              commit_take_lock(txn, fail).lock = (fail # "hif_state_take_lock")

\* a commit that ran the transaction and wrote the stores has returned
C22_Witness ==
    /\ CommitReturned
    /\ txn.ret
    /\ txn.invalidated
    /\ ~txn.lock

\* C23: when commit has returned FALSE, from whatever phase, the rpm
\* transaction set is empty and has no notify callback, install, remove,
\* remove_helper and erased_by_package_hash are absent and pkgs_to_download
\* is empty
C23_FailedCommitLeavesCleanDriver ==
    CommitReturned /\ ~txn.ret =>
        /\ txn.ts = EmptyTs
        /\ ~txn.has_install /\ ~txn.has_remove
        /\ ~txn.has_remove_helper /\ ~txn.has_hash
        /\ txn.pkgs_to_download = <<>>

\* commit failed while adding the removals, after the installs were added
C23_Witness ==
    /\ CommitReturned
    /\ ~txn.ret
    /\ txn.error = "hif_rpmts_add_remove_pkg"
    /\ goal.trans.install # <<>>

\* what a commit must not change under TEST: the reason store, the files of
\* the cache, the validity of the context
Persistent(t) == <<t.db, t.cache, t.invalidated>>

\* C24: with TEST set, every step of commit, up to its return with success
\* or failure, leaves the reason store, the cached files and the context as
\* they were, and rpmtsRun is entered with RPMTRANS_FLAG_TEST only
C24_TestCommitChangesNothingPersistent ==
    /\ (txn.pc = "run" /\ "TEST" \in txn.flags
           => txn.ts.flags = {"RPMTRANS_FLAG_TEST"})
    /\ (txn.pc = "idle" /\ "TEST" \in txn.flags =>
           \A fail \in BeginFails :
               Persistent(commit_begin(txn, goal, fail, 0)) = Persistent(txn))
    /\ (txn.pc = "run" /\ "TEST" \in txn.flags =>
           \A rc \in {-1, 0, 1}, problems \in BOOLEAN, keep_cache \in BOOLEAN,
              fail \in {"none", "hif_state_done"} :
               Persistent(commit_end(txn, goal, rc, problems, keep_cache, fail))
                  = Persistent(txn))

\* a commit under TEST went through rpmtsRun, where an install started, and
\* returned TRUE, with files in the cache and a context still valid
C24_Witness ==
    /\ CommitReturned
    /\ txn.ret
    /\ "TEST" \in txn.flags
    /\ txn.step = "WRITING"
    /\ txn.cache # {}
    /\ ~txn.invalidated

\* C26: a commit without TEST whose rpmtsRun reports no error (0, or a
\* positive value without problems) while the step is not WRITING returns
\* FALSE with InternalError
C26_NoWritingStepIsInternalError ==
    txn.pc = "run" /\ "TEST" \notin txn.flags /\ txn.step # "WRITING" =>
        \A rc \in {0, 1}, keep_cache \in BOOLEAN, fail \in {"none", "hif_state_done"} :
            /\ ~commit_end(txn, goal, rc, FALSE, keep_cache, fail).ret
            /\ commit_end(txn, goal, rc, FALSE, keep_cache, fail).error
                  = "HIF_ERROR_INTERNAL_ERROR"

\* a real run that got as far as PREPARING was answered with InternalError
C26_Witness ==
    /\ CommitReturned
    /\ ~txn.ret
    /\ txn.error = "HIF_ERROR_INTERNAL_ERROR"
    /\ "TEST" \notin txn.flags
    /\ txn.step = "PREPARING"

\* the installs of the goal whose file has an invalid signature
BadSigInstalls == {p \in Range(goal.trans.install) : p \in txn.bad_sig}

\* the invalid signature of the package is fatal
SigFatal(p) ==
    \/ has_repo(p) /\ Repos[HifPackage[p].reponame].gpgcheck
    \/ "ONLY_TRUSTED" \in txn.flags

\* C27: for installs whose files can be read, the trust check of commit
\* fails exactly when some install has an invalid signature and its
\* repository has gpgcheck or the transaction has ONLY_TRUSTED; otherwise
\* the invalid signatures are ignored and commit goes on to rpmtsRun
C27_InvalidSignatureFatalIffGpgcheckOrOnlyTrusted ==
    txn.pc = "idle" /\ Range(goal.trans.install) \subseteq txn.cache =>
        /\ (hif_transaction_check_untrusted(txn, goal, "none") # "none"
               <=> \E p \in BadSigInstalls : SigFatal(p))
        /\ (hif_transaction_check_untrusted(txn, goal, "none")
               \in {"none", "HIF_ERROR_FILE_INVALID", "HIF_ERROR_GPG_SIGNATURE_INVALID"})
        /\ ((\A p \in BadSigInstalls : ~SigFatal(p)) =>
               commit_begin(txn, goal, "none", 61).pc = "run")
        /\ ((\E p \in BadSigInstalls : SigFatal(p)) =>
               \A fail \in BeginFails \ {"hif_state_take_lock", "hif_keyring_add_public_keys"} :
                   /\ ~commit_begin(txn, goal, fail, 61).ret
                   /\ commit_begin(txn, goal, fail, 61).pc = "idle")

\* commit is inside rpmtsRun with an install whose invalid signature was
\* ignored
C27_Witness ==
    /\ txn.pc = "run"
    /\ BadSigInstalls # {}
    /\ \A p \in BadSigInstalls : ~SigFatal(p)

\* the download would not fit
OverFree == txn.free_space < hif_package_array_get_download_size(txn.pkgs_to_download)

\* C28 as stated: commit starts with the check of the free space, so it is
\* never inside rpmtsRun with a download list larger than the free space
C28_CommitChecksFreeSpace ==
    txn.pc = "run" => ~OverFree

\* C28: the check of the free space is the first step of download, which
\* fails with NoSpace, and downloads nothing, exactly when the summed
\* download size of pkgs_to_download exceeds the free bytes; commit makes no
\* such check and never returns NoSpace
C28_DownloadChecksFreeSpace ==
    /\ (txn.pc = "idle" =>
          /\ (OverFree <=> hif_transaction_download(txn).error = "HIF_ERROR_NO_SPACE")
          /\ (OverFree =>
                /\ ~hif_transaction_download(txn).ret
                /\ hif_transaction_download(txn).cache = txn.cache)
          /\ \A fail \in BeginFails :
                commit_begin(txn, goal, fail, 61).error # "HIF_ERROR_NO_SPACE")
    /\ (txn.call = "commit" => txn.error # "HIF_ERROR_NO_SPACE")

\* download has returned NoSpace
C28_Witness ==
    /\ txn.pc = "idle"
    /\ txn.call = "download"
    /\ ~txn.ret
    /\ txn.error = "HIF_ERROR_NO_SPACE"

\* the packages of list_obsoleted_by_package of the update and downgrade
\* installs, from place i of the install list on, each labelled CLEANUP
RECURSIVE ObsoletedOfUpdates(_, _)
ObsoletedOfUpdates(install, i) ==
    IF i > Len(install) THEN <<>>
    ELSE (IF ~is_update(install[i].action) THEN <<>>
          ELSE [j \in 1..Len(goal.trans.obs[install[i].id]) |->
                  PkgObj(goal.trans.obs[install[i].id][j], "CLEANUP")])
         \o ObsoletedOfUpdates(install, i + 1)

\* C29 as stated: while commit is inside rpmtsRun, remove_helper holds, for
\* every update or downgrade install, every package of its
\* list_obsoleted_by_package once, labelled CLEANUP, and nothing else
C29_RemoveHelperHoldsEveryObsoleted ==
    txn.pc = "run" =>
        /\ txn.has_remove_helper
        /\ txn.remove_helper = ObsoletedOfUpdates(txn.install, 1)

\* the reasons the predecessors of the package have in the reason store
StoredReasons(p) ==
    {txn.db[goal.trans.obs[p][j]] : j \in 1..Len(goal.trans.obs[p])} \ {"none"}

\* C30 as stated: the reason written for an install is "user" for an
\* install-only package; else, for an update, a downgrade or a reinstall, the
\* reason stored for a package of its list_obsoleted_by_package, and "dep"
\* only when none of them has one; else "user" or "dep" after goal.reason
C30_ReasonIsPropagatedFromPredecessor ==
    txn.pc = "run" =>
        \A i \in 1..Len(txn.install) :
            hif_transaction_get_propagated_reason(txn, goal, txn.install[i])
              \in (IF HifPackage[txn.install[i].id].installonly THEN {"user"}
                   ELSE IF txn.install[i].action \in {"UPDATE", "DOWNGRADE", "REINSTALL"}
                   THEN (IF StoredReasons(txn.install[i].id) = {} THEN {"dep"}
                         ELSE StoredReasons(txn.install[i].id))
                   ELSE IF txn.install[i].id \in goal.trans.user THEN {"user"}
                   ELSE {"dep"})

-----------------------------------------------------------------------------
(* The progress callback during a commit.                                  *)

\* the amounts rpm reports, of a total of MaxAmount
MaxAmount == 2

\* the kinds of callback rpm makes
RpmCallbacks ==
    {"TRANS_START", "TRANS_PROGRESS", "TRANS_STOP", "INST_START", "INST_PROGRESS",
     "INST_STOP", "UNINST_START", "UNINST_PROGRESS", "UNINST_STOP"}

ProgressCallbacks == {"TRANS_PROGRESS", "INST_PROGRESS", "UNINST_PROGRESS"}

\* the update of 61 by 62 with its files downloaded, with or without TEST
InitProgress ==
    /\ queries = [q \in QueryIds |-> hy_query_create_flags({})]
    /\ pkg_excludes = {}
    /\ pkg_includes = {}
    /\ considered = [set |-> FALSE, map |-> {}]
    /\ considered_uptodate = FALSE
    /\ crashed = FALSE
    /\ run = RunIdle
    /\ gsack = NoGoalSack
    /\ staged_call = NoCall
    /\ result_map = [q \in QueryIds |-> 0]
    /\ sltr_call = NoSltrCall
    /\ poss = NoPoss
    /\ py = PyIdle
    /\ goal = [hy_goal_create EXCEPT
                 !.has_solv = TRUE, !.has_trans = TRUE,
                 !.trans = SolvedGoal(<<62>>, [NoAction EXCEPT ![62] = "UPDATE"], <<>>,
                                      [NoObs EXCEPT ![62] = <<61>>], {}, {62})]
    /\ \E flags \in {{}, {"TEST"}} :
          txn = [hif_transaction_new EXCEPT !.flags = flags, !.cache = {62},
                                            !.free_space = 4]

\* hif_transaction_commit, none of its calls failing before rpmtsRun
HifTransactionCommitRuns ==
    /\ txn.pc = "idle"
    /\ TxnStep(commit_begin(txn, goal, "none", 0))

\* rpm calls back while rpmtsRun is under way: the kind, the package of the
\* header, the amount
RpmCallback ==
    \E what \in RpmCallbacks, pkg \in {61, 62}, amount \in 1..MaxAmount :
        /\ txn.pc = "run"
        /\ what = "INST_START" => FindPkg(txn.install, pkg) # 0
        /\ TxnStep(hif_transaction_ts_progress_cb(txn, what, pkg, amount))

\* rpmtsRun returns without an error and commit runs to its end
RpmtsRunSucceeds ==
    /\ txn.pc = "run"
    /\ TxnStep(commit_end(txn, goal, 0, FALSE, TRUE, "none"))

NextProgress ==
    \/ HifTransactionCommitRuns
    \/ RpmCallback
    \/ RpmtsRunSucceeds

SpecProgress == InitProgress /\ [][NextProgress]_vars

\* the callback leaves what the progress callbacks report, and the step, as
\* they are
Dropped(what, pkg, amount) ==
    /\ hif_transaction_ts_progress_cb(txn, what, pkg, amount).last_progress
          = txn.last_progress
    /\ hif_transaction_ts_progress_cb(txn, what, pkg, amount).report = txn.report
    /\ hif_transaction_ts_progress_cb(txn, what, pkg, amount).step = txn.step

\* C25: the step becomes WRITING only in a step that is an INST_START or
\* UNINST_START callback; a TRANS_PROGRESS, INST_PROGRESS or UNINST_PROGRESS
\* callback received while the step is PREPARING or IGNORE changes neither
\* last_progress nor the speed, the percentage and the package progress
\* reported; a TRANS_START received in IGNORE leaves the step IGNORE
C25_ProgressDroppedWhilePreparingOrIgnore ==
    /\ [](txn.pc = "run" /\ txn.step \in {"PREPARING", "IGNORE"} =>
            \A what \in ProgressCallbacks, pkg \in {61, 62}, amount \in 1..MaxAmount :
                Dropped(what, pkg, amount))
    /\ [](txn.pc = "run" /\ txn.step = "IGNORE" =>
            hif_transaction_ts_progress_cb(txn, "TRANS_START", 0, MaxAmount).step
               = "IGNORE")
    /\ [][txn'.step = "WRITING" /\ txn.step # "WRITING"
             => txn'.cb \in {"INST_START", "UNINST_START"}]_vars

\* a progress callback was received in PREPARING and nothing was reported
\* for it
C25_Witness ==
    /\ txn.pc = "run"
    /\ txn.step = "PREPARING"
    /\ txn.cb = "INST_PROGRESS"
    /\ txn.report.speed = <<>>

-----------------------------------------------------------------------------
(* The cleanup of the cache after a commit.                                *)

\* the file of the package lies in the cachedir or below it
InCacheDir(p) == g_str_has_prefix(hif_package_get_filename(p), CacheDir \o <<"/">>)

\* the files left when commit returns after an rpmtsRun without error
FilesAfterCommit(keep_cache) ==
    commit_end(txn, goal, 0, FALSE, keep_cache, "none").cache

\* commit is inside the real rpmtsRun and an install has started
CommitWrites ==
    /\ txn.pc = "run"
    /\ "TEST" \notin txn.flags
    /\ txn.step = "WRITING"

\* C31 as stated: the cleanup after a successful commit deletes only files
\* of installs that lie in the cachedir, a package file of the command line
\* outside the cachedir is never deleted, and with keep_cache no file is
\* deleted
C31_CleanupDeletesOnlyFilesInCachedir ==
    CommitWrites =>
        /\ FilesAfterCommit(TRUE) = txn.cache
        /\ \A p \in txn.cache \ FilesAfterCommit(FALSE) :
              /\ \E i \in 1..Len(txn.install) : txn.install[i].id = p
              /\ InCacheDir(p)

\* a commit that installed the package file /cx/e of the command line has
\* returned with success and the file is gone
C31_Witness ==
    /\ CommitReturned
    /\ txn.ret
    /\ txn.invalidated
    /\ goal.trans.install = <<68>>
    /\ ~InCacheDir(68)
    /\ 68 \notin txn.cache

-----------------------------------------------------------------------------
(* The EPOCH filter.                                                       *)

\* the numbers given to hy_query_filter_num lie in -1..MaxEpochNum
MaxEpochNum == 1

\* the EPOCH filters staged on one query
MaxEpochFilters == 2

EpochNums == (0 - 1)..MaxEpochNum

EpochCmpTypes == { {"EQ"}, {"LT"}, {"GT"}, {"GT", "EQ"} }

\* hy_query_filter_num(q, HY_PKG_EPOCH, cmp_type, n)
HyQueryFilterEpoch(q) ==
    \E cmp_type \in EpochCmpTypes, n \in EpochNums :
        Stage(q, hy_query_filter_num(queries[q], "EPOCH", cmp_type, n), MaxEpochFilters)

NextEpoch ==
    \/ HyQueryFilterEpoch(1)
    \/ HyQueryFilterPackageIn(1, PkgCalls, MaxEpochFilters)
    \/ HyQueryRun(1)
    \/ HyQueryClear(1)

SpecEpoch == Init /\ [][NextEpoch]_vars

\* what filter_epoch selects of the result the query has, for one comparison
\* and one number
EpochSel(cmp, n) ==
    filter_epoch(queries[1].result, Filter("EPOCH", {cmp}, "NUM", <<n>>))

\* the query was evaluated and nothing is staged
Evaluated == queries[1].applied /\ queries[1].has_result /\ queries[1].filters = <<>>

\* C32 as stated: EQ 0 selects no package without epoch, and for every
\* number n the sets selected by EQ n, LT n and GT n are pairwise disjoint
\* and hold the packages whose epoch (-1 when absent) is equal to, below and
\* above n as signed integers
C32_EpochFilterComparesSigned ==
    Evaluated =>
        \A n \in EpochNums :
            /\ \A id \in EpochSel("EQ", 0) : Solvable[id].epoch # -1
            /\ EpochSel("EQ", n) \cap EpochSel("LT", n) = {}
            /\ EpochSel("EQ", n) \cap EpochSel("GT", n) = {}
            /\ EpochSel("LT", n) \cap EpochSel("GT", n) = {}
            /\ EpochSel("EQ", n) = {id \in queries[1].result : Solvable[id].epoch = n}
            /\ EpochSel("LT", n) = {id \in queries[1].result : Solvable[id].epoch < n}
            /\ EpochSel("GT", n) = {id \in queries[1].result : Solvable[id].epoch > n}

\* C32: EQ 0 selects no package without epoch, and for every number n the
\* sets selected by EQ n, LT n and GT n are pairwise disjoint; between an
\* epoch that is present and an n that is not negative they follow the
\* comparison of the integers, a package without epoch is selected by EQ -1
\* and by GT n for every other n, and a package with an epoch is selected by
\* LT n for every negative n
C32_EpochFilterComparesUnsigned ==
    Evaluated =>
        \A n \in EpochNums :
            /\ \A id \in EpochSel("EQ", 0) : Solvable[id].epoch # -1
            /\ EpochSel("EQ", n) \cap EpochSel("LT", n) = {}
            /\ EpochSel("EQ", n) \cap EpochSel("GT", n) = {}
            /\ EpochSel("LT", n) \cap EpochSel("GT", n) = {}
            /\ \A id \in queries[1].result :
                  IF Solvable[id].epoch >= 0 /\ n >= 0
                  THEN /\ id \in EpochSel("EQ", n) <=> Solvable[id].epoch = n
                       /\ id \in EpochSel("LT", n) <=> Solvable[id].epoch < n
                       /\ id \in EpochSel("GT", n) <=> Solvable[id].epoch > n
                  ELSE IF Solvable[id].epoch >= 0
                  THEN id \in EpochSel("LT", n)
                  ELSE IF n = -1
                  THEN id \in EpochSel("EQ", n)
                  ELSE id \in EpochSel("GT", n)

\* an EPOCH filter that selects epoch 0 was evaluated on every package: the
\* result holds 3, of epoch 0, and not 2 and 5, which have no epoch
C32_Witness ==
    /\ Evaluated
    /\ queries[1].result = {3}
    /\ EpochSel("EQ", 0) = {3}
    /\ EpochSel("EQ", -1) = {}

-----------------------------------------------------------------------------
(* The subject parser: the NEVRA possibilities of a string.                *)

\* A string is kept as the sequence of its tokens: the characters '-', ':'
\* and '.', which the forms tell apart, and between them the longest runs of
\* other characters.
inp_fof ==
    <<"four", "-", "of", "-", "fish", "-", "8", ":", "3", ".", "6", ".", "9", "-",
      "11", ".", "fc100", ".", "x86_64">>

inp_fof_noepoch ==
    <<"four", "-", "of", "-", "fish", "-", "3", ".", "6", ".", "9", "-",
      "11", ".", "fc100", ".", "x86_64">>

inp_fof_nev == <<"four", "-", "of", "-", "fish", "-", "8", ":", "3", ".", "6", ".", "9">>

inp_fof_na == <<"four", "-", "of", "-", "fish", "-", "3", ".", "6", ".", "9", ".", "i686">>

\* the tokens that are runs of digits, with their value
Numbers == [w \in {"3", "6", "8", "9", "11"} |->
              CASE w = "3" -> 3 [] w = "6" -> 6 [] w = "8" -> 8 [] w = "9" -> 9
                [] OTHER -> 11]

\* the place of the last token c in s, 0 if there is none
LastOf(s, c) ==
    IF \E i \in 1..Len(s) : s[i] = c
    THEN CHOOSE i \in 1..Len(s) : s[i] = c /\ \A j \in (i + 1)..Len(s) : s[j] # c
    ELSE 0

\* the classes of the forms: a name is [^:]+, a version and a release are
\* [^-:]+, an arch is [^-:.]+
IsName(s) == s # <<>> /\ \A i \in 1..Len(s) : s[i] # ":"

IsVersion(s) == s # <<>> /\ \A i \in 1..Len(s) : s[i] \notin {":", "-"}

IsArch(s) == s # <<>> /\ \A i \in 1..Len(s) : s[i] \notin {":", "-", "."}

\* a match that failed
NoMatch == [rc |-> -1, nevra |-> hy_nevra_create]

Matched(name, epoch, version, release, arch) ==
    [rc |-> 0, nevra |-> [name |-> name, epoch |-> epoch, version |-> version,
                          release |-> release, arch |-> arch]]

\* the forms of a NEVRA, from the most specific on
HY_FORMS_MOST_SPEC == <<"NEVRA", "NEVR", "NEV", "NA", "NAME">>

\* ^NAME-(EPOCH:)?VERSION$ with release and arch as given: the version is
\* what follows the last '-', after an epoch of digits and ':' if there is one
MatchNEV(s, release, arch) ==
    IF LastOf(s, "-") = 0 THEN NoMatch
    ELSE IF ~IsName(SubSeq(s, 1, LastOf(s, "-") - 1)) THEN NoMatch
    ELSE IF IsVersion(SubSeq(s, LastOf(s, "-") + 1, Len(s)))
    THEN Matched(SubSeq(s, 1, LastOf(s, "-") - 1), -1,
                 SubSeq(s, LastOf(s, "-") + 1, Len(s)), release, arch)
    ELSE IF /\ Len(s) >= LastOf(s, "-") + 3
            /\ s[LastOf(s, "-") + 1] \in DOMAIN Numbers
            /\ s[LastOf(s, "-") + 2] = ":"
            /\ IsVersion(SubSeq(s, LastOf(s, "-") + 3, Len(s)))
    THEN Matched(SubSeq(s, 1, LastOf(s, "-") - 1), Numbers[s[LastOf(s, "-") + 1]],
                 SubSeq(s, LastOf(s, "-") + 3, Len(s)), release, arch)
    ELSE NoMatch

\* ^NAME-(EPOCH:)?VERSION-RELEASE$ with the arch as given: the release is
\* what follows the last '-'
MatchNEVR(s, arch) ==
    IF LastOf(s, "-") = 0 THEN NoMatch
    ELSE IF ~IsVersion(SubSeq(s, LastOf(s, "-") + 1, Len(s))) THEN NoMatch
    ELSE MatchNEV(SubSeq(s, 1, LastOf(s, "-") - 1),
                  SubSeq(s, LastOf(s, "-") + 1, Len(s)), arch)

\* nevra_possibility with a form that takes every string that is a name
nevra_possibility_NameOnly(s, form) ==
    IF IsName(s) THEN Matched(s, -1, <<>>, <<>>, <<>>) ELSE NoMatch

\* nevra_possibility: regexec of the regular expression of the form on the
\* string and, on a match, the fields of the HyNevra; the arch is what
\* follows the last '.'
nevra_possibility(s, form) ==
    CASE form = "NEVRA" ->
           IF LastOf(s, ".") = 0 \/ ~IsArch(SubSeq(s, LastOf(s, ".") + 1, Len(s)))
           THEN NoMatch
           ELSE MatchNEVR(SubSeq(s, 1, LastOf(s, ".") - 1),
                          SubSeq(s, LastOf(s, ".") + 1, Len(s)))
      [] form = "NEVR" -> MatchNEVR(s, <<>>)
      [] form = "NEV" -> MatchNEV(s, <<>>, <<>>)
      [] form = "NA" ->
           IF \/ LastOf(s, ".") = 0
              \/ ~IsArch(SubSeq(s, LastOf(s, ".") + 1, Len(s)))
              \/ ~IsName(SubSeq(s, 1, LastOf(s, ".") - 1))
           THEN NoMatch
           ELSE Matched(SubSeq(s, 1, LastOf(s, ".") - 1), -1, <<>>, <<>>,
                        SubSeq(s, LastOf(s, ".") + 1, Len(s)))
      [] OTHER -> IF IsName(s) THEN Matched(s, -1, <<>>, <<>>, <<>>) ELSE NoMatch

\* hy_subject_nevra_possibilities: an iterator at the first of the forms,
\* HY_FORMS_MOST_SPEC when none are given
hy_subject_nevra_possibilities(subject, forms) ==
    [has_iter |-> TRUE, subject |-> subject,
     forms |-> IF forms = <<>> THEN HY_FORMS_MOST_SPEC ELSE forms,
     current |-> 1, ret |-> 0, emitted |-> <<>>]

\* hy_possibilities_next_nevra: the forms are tried from current on, the
\* first that matches is returned with 0 and current is left behind it; -1
\* when the forms are used up
RECURSIVE hy_possibilities_next_nevra(_)
hy_possibilities_next_nevra(iter) ==
    IF iter.current > Len(iter.forms) THEN [iter EXCEPT !.ret = -1]
    ELSE IF nevra_possibility(iter.subject, iter.forms[iter.current]).rc = 0
    THEN [iter EXCEPT !.current = @ + 1, !.ret = 0,
                      !.emitted = Append(@, nevra_possibility(iter.subject,
                                                iter.forms[iter.current]).nevra)]
    ELSE hy_possibilities_next_nevra([iter EXCEPT !.current = @ + 1])

\* the strings parsed
Subjects ==
    {inp_fof, inp_fof_noepoch, inp_fof_nev, inp_fof_na, <<"four", "-", "of">>,
     <<"penny", "-", "lib">>, <<"fish">>, <<"8", ":", "fish">>}

\* the forms given: none, or forms of the caller's choice
FormLists == {<<>>, <<"NA", "NAME">>, <<"NEVR", "NEVRA">>, <<"NEV">>}

PossStep(p) ==
    /\ poss' = p
    /\ UNCHANGED <<py, sltr_call, txn, staged_call, result_map, queries, pkg_excludes,
                   pkg_includes, considered, considered_uptodate, crashed, goal, run,
                   gsack>>

HySubjectNevraPossibilities ==
    \E subject \in Subjects, forms \in FormLists :
        /\ ~poss.has_iter
        /\ PossStep(hy_subject_nevra_possibilities(subject, forms))

HyPossibilitiesNextNevra ==
    /\ poss.has_iter
    /\ poss.ret = 0
    /\ PossStep(hy_possibilities_next_nevra(poss))

\* hy_possibilities_free
HyPossibilitiesFree ==
    /\ poss.has_iter
    /\ PossStep(NoPoss)

NextSubject ==
    \/ HySubjectNevraPossibilities
    \/ HyPossibilitiesNextNevra
    \/ HyPossibilitiesFree

SpecSubject == Init /\ [][NextSubject]_vars

\* the possibilities the test combined1 expects of inp_fof, in their order
combined1 ==
    << [name |-> <<"four", "-", "of", "-", "fish">>, epoch |-> 8,
        version |-> <<"3", ".", "6", ".", "9">>, release |-> <<"11", ".", "fc100">>,
        arch |-> <<"x86_64">>],
       [name |-> <<"four", "-", "of", "-", "fish">>, epoch |-> 8,
        version |-> <<"3", ".", "6", ".", "9">>,
        release |-> <<"11", ".", "fc100", ".", "x86_64">>, arch |-> <<>>] >>

\* the possibilities the test combined2 expects of inp_fof_noepoch
combined2 ==
    << [name |-> <<"four", "-", "of", "-", "fish">>, epoch |-> -1,
        version |-> <<"3", ".", "6", ".", "9">>, release |-> <<"11", ".", "fc100">>,
        arch |-> <<"x86_64">>],
       [name |-> <<"four", "-", "of", "-", "fish">>, epoch |-> -1,
        version |-> <<"3", ".", "6", ".", "9">>,
        release |-> <<"11", ".", "fc100", ".", "x86_64">>, arch |-> <<>>],
       [name |-> <<"four", "-", "of", "-", "fish", "-", "3", ".", "6", ".", "9">>,
        epoch |-> -1, version |-> <<"11", ".", "fc100", ".", "x86_64">>,
        release |-> <<>>, arch |-> <<>>],
       [name |-> <<"four", "-", "of", "-", "fish", "-", "3", ".", "6", ".", "9", "-",
                   "11", ".", "fc100">>,
        epoch |-> -1, version |-> <<>>, release |-> <<>>, arch |-> <<"x86_64">>],
       [name |-> inp_fof_noepoch, epoch |-> -1, version |-> <<>>, release |-> <<>>,
        arch |-> <<>>] >>

\* the forms of the iterator that match its subject, from place i on
RECURSIVE MatchingFrom(_, _)
MatchingFrom(iter, i) ==
    IF i > Len(iter.forms) THEN <<>>
    ELSE (IF nevra_possibility(iter.subject, iter.forms[i]).rc = 0
          THEN <<nevra_possibility(iter.subject, iter.forms[i]).nevra>>
          ELSE <<>>) \o MatchingFrom(iter, i + 1)

\* C33: what the iterator has returned and what is left to it are together
\* the matches of the forms in their order, one per form that matches; it
\* returns -1 only when no form is left, and with the forms NEVRA, NEVR,
\* NEV, NA, N an exhausted iterator has returned for
\* four-of-fish-8:3.6.9-11.fc100.x86_64 the two possibilities of combined1
\* and for four-of-fish-3.6.9-11.fc100.x86_64 the five of combined2
C33_PossibilitiesInFormOrder ==
    poss.has_iter =>
        /\ poss.emitted \o MatchingFrom(poss, poss.current)
              = MatchingFrom(poss, 1)
        /\ (poss.ret = -1 => /\ poss.current > Len(poss.forms)
                             /\ poss.emitted = MatchingFrom(poss, 1))
        /\ (poss.ret = 0 => hy_possibilities_next_nevra(poss).ret
                               = (IF MatchingFrom(poss, poss.current) = <<>>
                                  THEN -1 ELSE 0))
        /\ (poss.ret = -1 /\ poss.forms = HY_FORMS_MOST_SPEC =>
              /\ poss.subject = inp_fof => poss.emitted = combined1
              /\ poss.subject = inp_fof_noepoch => poss.emitted = combined2)

\* the iterator over four-of-fish-8:3.6.9-11.fc100.x86_64 has returned two
\* possibilities and then -1
C33_Witness ==
    /\ poss.has_iter
    /\ poss.subject = inp_fof
    /\ poss.forms = HY_FORMS_MOST_SPEC
    /\ poss.ret = -1
    /\ Len(poss.emitted) = 2

-----------------------------------------------------------------------------
(* Filters staged with and without NOT.                                    *)

MaxNotFilters == 2

\* (keyname, cmp_type, match) of hy_query_filter calls without NOT: by
\* name, by version and release with a comparison and with a pattern, and
\* by a dependency given as a string
PlainCalls ==
    { <<"NAME", {"EQ"}, 10>>, <<"NAME", {"EQ", "ICASE"}, 11>>,
      <<"VERSION", {"EQ"}, 1>>, <<"VERSION", {"GT"}, 1>>,
      <<"VERSION", {"GLOB"}, 1>>, <<"RELEASE", {"GLOB"}, 0>>,
      <<"REQUIRES", {"EQ"}, 30>>, <<"REQUIRES", {"EQ"}, 99>> }

\* the same calls with NOT
NotCalls == {<<c[1], c[2] \cup {"NOT"}, c[3]>> : c \in PlainCalls}

NextNot ==
    \/ HyQueryFilter(1, PlainCalls \cup NotCalls, MaxNotFilters)
    \/ HyQueryRun(1)

SpecNot == Init /\ [][NextNot]_vars

\* the result hy_query_run gives for the query q
ResultOfRun(q) ==
    hy_query_apply(q, ConsideredAfter(q, considered, considered_uptodate)).result

\* the result after the call c of hy_query_filter on query 1 and a run
ResultWith(c) == ResultOfRun(hy_query_filter(queries[1], c[1], c[2], c[3]))

\* C34 as stated: for every filter that staging accepts, the result of the
\* filter staged with NOT is the prior result without the packages the
\* filter without NOT selects; the two results partition the prior result
C34_NotPartitionsPriorResult ==
    \A c \in PlainCalls :
        valid_filter_str(c[1], c[2] \cup {"NOT"}) =>
            /\ ResultWith(c) \subseteq ResultOfRun(queries[1])
            /\ ResultWith(<<c[1], c[2] \cup {"NOT"}, c[3]>>)
                  = ResultOfRun(queries[1]) \ ResultWith(c)

\* VERSION with GLOB and NOT is staged on a fresh query, and the run gives
\* the packages of version 1 with the others
C34_Witness ==
    /\ queries[1].filters = <<Filter("VERSION", {"GLOB", "NOT"}, "STR", <<1>>)>>
    /\ ~queries[1].has_result
    /\ \E id \in ResultOfRun(queries[1]) : Solvable[id].version = 1

-----------------------------------------------------------------------------
(* Advisory filters.                                                       *)

MaxAdvFilters == 2

\* (keyname, cmp_type, match) of the hy_query_filter calls with an advisory
\* key: by the id and by the kind of the advisory
AdvCalls ==
    { <<"ADVISORY", {"EQ"}, 50>>, <<"ADVISORY", {"EQ"}, 51>>,
      <<"ADVISORY", {"EQ"}, 52>>, <<"ADVISORY_TYPE", {"EQ"}, 60>>,
      <<"ADVISORY_TYPE", {"EQ"}, 61>>, <<"ADVISORY", {"EQ"}, 59>> }

\* the packagesets of the PKG filters staged before an advisory filter
AdvPkgCalls ==
    { <<"PKG", {"EQ"}, {12, 13}>>, <<"PKG", {"EQ"}, {13, 14}>>,
      <<"PKG", {"EQ", "NOT"}, {13}>> }

\* query 1 was run once on the sack of the advisory packages, with nothing
\* staged: its result holds every package of that sack
InitAdvisory ==
    /\ queries = [q \in QueryIds |->
                    [hy_query_create_flags({}) EXCEPT !.has_result = TRUE,
                                                      !.result = AdvPkgs,
                                                      !.applied = TRUE]]
    /\ pkg_excludes = {}
    /\ pkg_includes = {}
    /\ considered = [set |-> FALSE, map |-> {}]
    /\ considered_uptodate = TRUE
    /\ crashed = FALSE
    /\ goal = hy_goal_create
    /\ run = RunIdle
    /\ gsack = NoGoalSack
    /\ staged_call = NoCall
    /\ result_map = [q \in QueryIds |-> 0]
    /\ sltr_call = NoSltrCall
    /\ poss = NoPoss
    /\ py = PyIdle
    /\ txn = hif_transaction_new

NextAdvisory ==
    \/ HyQueryFilter(1, AdvCalls, MaxAdvFilters)
    \/ HyQueryFilterPackageIn(1, AdvPkgCalls, MaxAdvFilters)
    \/ HyQueryRun(1)

SpecAdvisory == InitAdvisory /\ [][NextAdvisory]_vars

\* the solvables of the result that have the name, EVR and arch of a
\* package of an advisory that the call c matches
AdvisorySel(result, c) ==
    {id \in result :
        \E a \in 1..Len(Advisories) :
            /\ AdvisoryMatch(Advisories[a], c[1], c[3])
            /\ \E p \in 1..Len(Advisories[a].pkgs) :
                  Advisories[a].pkgs[p] = AdvisoryPkg(id)}

\* C35 as stated: whatever was staged before it, an advisory filter staged
\* last selects of the result it meets every solvable whose NEVRA is that
\* of a package of a matched advisory, also when several solvables share it
C35_AdvisorySelectsEveryNevraMatch ==
    \A c \in AdvCalls :
        ResultOfRun(hy_query_filter(queries[1], c[1], c[2], c[3]))
            = AdvisorySel(ResultOfRun(queries[1]), c)

\* the filter of advisory 50, which names the package that 12 and 13 both
\* are, is staged on the result that holds both, and the run leaves 12 only
C35_Witness ==
    /\ queries[1].filters = <<Filter("ADVISORY", {"EQ"}, "STR", <<50>>)>>
    /\ queries[1].result = AdvPkgs
    /\ ResultOfRun(queries[1]) = {12}

-----------------------------------------------------------------------------
(* The order of the phases of commit.                                      *)

\* commit of the transaction and goal of the state after each of its
\* phases up to the run, for a step that fails and a word read past the end
AtLock(fail) == commit_take_lock(txn, fail)

AtChecks(fail) == commit_checks(AtLock(fail), goal, fail)

AtInstall(fail) == commit_install(AtChecks(fail), goal, fail)

AtRemove(fail) == commit_remove(AtInstall(fail), goal, fail)

AtRun(fail, oob) == commit_until_run(txn, goal, fail, oob)

\* the elements of the rpm transaction of one kind
TsOfKind(t, kind) == SelectSeq(t.ts.elements, LAMBDA e : e[1] = kind)

\* the phases up to the run as l, c, i and r, the commit after the lock,
\* the checks, the installs and the removes, and u, the commit at the run
\* or at the label out, show them: each phase acts only when every phase
\* before it succeeded, and a phase that fails is the last to act
UntilRunInOrder(l, c, i, r, u) ==
    /\ ~l.ret => u = l /\ ~u.lock
    /\ ~c.ret => u = c /\ u.ts = txn.ts /\ ~u.has_install
    /\ ~i.ret => u = i /\ TsOfKind(u, "remove") = <<>> /\ ~u.has_remove
    /\ ~r.ret => u = r /\ ~u.has_remove_helper
    /\ ~u.ret => u.pc # "run"
    /\ u.pc = "run" =>
          /\ u.lock /\ u.ts.notify /\ u.has_install /\ u.has_remove
          /\ u.has_remove_helper /\ u.has_hash
          /\ u.ts.elements = TsOfKind(u, "install") \o TsOfKind(u, "remove")
          /\ Len(TsOfKind(u, "install")) = Len(goal.trans.install)
          /\ Len(TsOfKind(u, "remove")) = Len(goal.trans.remove)

PhasesUntilRun ==
    \A fail \in BeginFails, oob \in {0, 61} :
        UntilRunInOrder(AtLock(fail), AtChecks(fail), AtInstall(fail),
                        AtRemove(fail), AtRun(fail, oob))

\* the run of rpm did not fail: rpmtsRun returned no error and no problem
\* was found
RunSucceeded(rc, problems) == rc >= 0 /\ ~(rc > 0 /\ problems)

\* commit after the write of the reason store
AtYumdb(rc, problems, fail) ==
    commit_yumdb(commit_written(commit_ran(txn, rc, problems), fail), goal)

AtOut(rc, problems, keep_cache, fail) ==
    commit_from_run(txn, goal, rc, problems, keep_cache, fail)

\* the phases from the return of rpmtsRun on, as y, the commit after the
\* write of the reason store, and o, the commit at the label out, show them
FromRunInOrder(rc, problems, keep_cache, y, o) ==
    /\ o.db # txn.db =>
          /\ RunSucceeded(rc, problems)
          /\ txn.step = "WRITING"
          /\ "TEST" \notin txn.flags
    /\ o.cache # txn.cache \/ o.invalidated # txn.invalidated =>
          /\ "TEST" \notin txn.flags
          /\ RunSucceeded(rc, problems)
          /\ txn.step = "WRITING"
          /\ y.ret
          /\ o.db = y.db
    /\ ~y.ret /\ "TEST" \notin txn.flags => o = y
    /\ ~o.ret => o.cache = txn.cache /\ o.invalidated = txn.invalidated
    /\ o.ret /\ "TEST" \notin txn.flags =>
          /\ o.invalidated
          /\ keep_cache => o.cache = txn.cache

PhasesFromRun ==
    \A rc \in {-1, 0, 1}, problems \in BOOLEAN, keep_cache \in BOOLEAN,
       fail \in {"none", "hif_state_done", "hif_transaction_delete_packages"} :
        FromRunInOrder(rc, problems, keep_cache, AtYumdb(rc, problems, fail),
                       AtOut(rc, problems, keep_cache, fail))

\* C36: in every commit the lock, the trust check, the installs, the
\* removes, the ordering with the test transaction and the run follow in
\* that order and after the run the write of the reason store, the cleanup
\* of the cache and the invalidation; each acts only when all before it
\* succeeded and the first that fails ends the commit: after a failed trust
\* check the rpm transaction is as it was, and the reason store is written
\* only after a run that did not fail and reached WRITING
C36_CommitPhasesInOrder ==
    /\ txn.pc = "idle" => PhasesUntilRun
    /\ txn.pc = "run" =>
          /\ txn.lock /\ txn.ts.notify /\ txn.has_install /\ txn.has_remove
          /\ PhasesFromRun

\* commit returned with the error of the trust check on a goal that has
\* installs; the rpm transaction is empty
C36_Witness ==
    /\ CommitReturned
    /\ ~txn.ret
    /\ txn.error \in {"hif_keyring_check_untrusted_file", "HIF_ERROR_FILE_INVALID",
                      "HIF_ERROR_GPG_SIGNATURE_INVALID"}
    /\ goal.trans.install # <<>>
    /\ txn.ts = EmptyTs
    /\ ~txn.lock

-----------------------------------------------------------------------------
(* The problems of a goal after several runs.                              *)

\* C37 as stated: after a run that failed inside the solver no removal of
\* a protected package is counted or described: removal_of_protected is
\* empty and hy_goal_count_problems is the number of problems of the solver
C37_ProblemsOfLatestRunOnly ==
    run.pc = "returned" /\ goal.solv.problems > 0 =>
        /\ goal.removal_of_protected = <<>>
        /\ hy_goal_count_problems = goal.solv.problems
        /\ \A i \in 0..(hy_goal_count_problems - 1) :
              hy_goal_describe_problem(i) = {SolverString}

\* the latest run failed inside the solver with one problem, and the
\* removal of a protected package that an earlier run recorded is counted
\* with it
C37_Witness ==
    /\ run.pc = "returned"
    /\ run.ret = 1
    /\ goal.solv.problems = 1
    /\ ~goal.has_trans
    /\ goal.removal_of_protected # <<>>
    /\ hy_goal_count_problems = 2

-----------------------------------------------------------------------------
(* A query after hy_query_clear.                                           *)

\* the query q after hy_query_clear and hy_query_apply
ClearedThenApplied(q) ==
    hy_query_apply(hy_query_clear(queries[q]),
                   ConsideredAfter(hy_query_clear(queries[q]), considered,
                                   considered_uptodate))

\* a query created with the flags of q, after hy_query_apply
FreshThenApplied(q) ==
    hy_query_apply(hy_query_create_flags(queries[q].flags),
                   ConsideredAfter(hy_query_create_flags(queries[q].flags),
                                   considered, considered_uptodate))

\* C38 as stated: from every state of a query, after hy_query_clear the
\* query has a result bitmap when it is evaluated, and the bitmap is that
\* of a query just created with the same sack and flags: every considered
\* package
C38_ClearedBehavesLikeFresh ==
    \A q \in QueryIds :
        /\ ClearedThenApplied(q).has_result
        /\ ClearedThenApplied(q).result = FreshThenApplied(q).result

\* hy_query_clear was called on a query that had been applied: it is
\* applied and has no result bitmap
C38_Witness ==
    \E q \in QueryIds :
        /\ queries[q].applied
        /\ ~queries[q].has_result
        /\ queries[q].filters = <<>>
        /\ ~ClearedThenApplied(q).has_result

-----------------------------------------------------------------------------
(* Staging calls on a goal that return an error.                           *)

MaxErrStaged == 2

\* the query of hy_goal_upgrade_to_flags: the packages of the goal's sack
\* that are not excluded, have the name and are of the system repository
InstalledOfName(name) ==
    {p \in GoalPkgs \ pkg_excludes : Solvable[p].name = name /\ Solvable[p].installed}

\* hy_goal_upgrade_to_flags: the goal and the return value
hy_goal_upgrade_to_flags(g, new_pkg, flags) ==
    IF "CHECK_INSTALLED" \in flags /\ InstalledOfName(Solvable[new_pkg].name) = {}
    THEN [goal |-> g, ret |-> "HIF_ERROR_PACKAGE_NOT_FOUND"]
    ELSE [goal |-> hy_goal_install([g EXCEPT !.actions = @ \cup {"UPGRADE"}], new_pkg),
          ret |-> "0"]

\* hy_goal_upgrade_to_flags as a staging call; sltr_call holds its return
\* value and the number of pairs it pushed
HyGoalUpgradeToFlags ==
    \E new_pkg \in {8}, flags \in {{}, {"CHECK_INSTALLED"}} :
        /\ ~crashed
        /\ run.pc # "solve"
        /\ Len(hy_goal_upgrade_to_flags(goal, new_pkg, flags).goal.staging)
              <= MaxErrStaged
        /\ goal' = hy_goal_upgrade_to_flags(goal, new_pkg, flags).goal
        /\ sltr_call' = [sltr |-> {}, action |-> "UPGRADE_TO",
                         rc |-> hy_goal_upgrade_to_flags(goal, new_pkg, flags).ret,
                         pushed |-> Len(hy_goal_upgrade_to_flags(goal, new_pkg,
                                                                 flags).goal.staging)
                                    - Len(goal.staging)]
        /\ run' = [run EXCEPT !.pc = "idle"]
        /\ UNCHANGED <<poss, py, txn, staged_call, result_map, queries, pkg_excludes,
                       pkg_includes, considered, considered_uptodate, crashed, gsack>>

\* a goal on a sack that has no excludes, or has the installed packages of
\* name 12 excluded
InitStagingErr ==
    /\ queries = [q \in QueryIds |-> hy_query_create_flags({})]
    /\ pkg_excludes \in {{}, {6, 7}}
    /\ pkg_includes = {}
    /\ considered = [set |-> FALSE, map |-> {}]
    /\ considered_uptodate = FALSE
    /\ crashed = FALSE
    /\ goal = hy_goal_create
    /\ run = RunIdle
    /\ staged_call = NoCall
    /\ result_map = [q \in QueryIds |-> 0]
    /\ sltr_call = NoSltrCall
    /\ poss = NoPoss
    /\ py = PyIdle
    /\ txn = hif_transaction_new
    /\ gsack = [installonly |-> <<40>>, installonly_limit |-> 1,
                running_kernel |-> -1, requires |-> [p \in GoalPkgs |-> {}]]

NextStagingErr ==
    \/ HyGoalInstallSelector
    \/ HyGoalEraseSelector
    \/ HyGoalUpgradeToSelector
    \/ HyGoalUpgradeToFlags

SpecStagingErr == InitStagingErr /\ [][NextStagingErr]_vars

\* C39 as stated: a staging call that returns an error leaves the goal as
\* it was: the staging queue holds the pairs it held and the actions have
\* no new bit
C39_FailedStagingLeavesGoalUnchanged ==
    [][sltr_call'.rc # "0" =>
          /\ goal'.staging = goal.staging
          /\ goal'.actions = goal.actions]_vars

\* hy_goal_erase_selector returned BadSelector on a goal that has nothing
\* staged, and the goal has the ERASE bit
C39_Witness ==
    /\ sltr_call.rc = "HIF_ERROR_BAD_SELECTOR"
    /\ sltr_call.action = "ERASE"
    /\ goal.staging = <<>>
    /\ goal.actions = {"ERASE"}

-----------------------------------------------------------------------------
(* The Python binding of the sack and the interpreter lock.                *)

\* py.gil is the thread that holds the interpreter lock inside the binding,
\* 0 when none does; py.pc[t] is where thread t is: "idle" outside the
\* binding, "entered" in a method before its call into the library, "load"
\* inside hif_sack_load_repo, "loaded" behind it and before
\* Py_END_ALLOW_THREADS has the lock again, "check" at the test of ret;
\* py.ret[t] is ret of load_repo and then what the method returned
SackMethods ==
    {"load_repo", "load_system_repo", "add_excludes", "add_includes",
     "enable_repo", "disable_repo", "evr_cmp", "_knows"}

\* the interpreter calls a method of the sack in a thread that holds the
\* interpreter lock
PyEnter(p, t, m) ==
    [p EXCEPT !.gil = t, !.pc[t] = "entered", !.method[t] = m, !.ret[t] = "none"]

\* the method returns to the interpreter, with a value or with NULL and an
\* exception set; the interpreter may then let another thread run
PyReturn(p, t, r) == [p EXCEPT !.gil = 0, !.pc[t] = "idle", !.ret[t] = r]

\* Py_BEGIN_ALLOW_THREADS: the lock is released
Py_BEGIN_ALLOW_THREADS(p, t) == [p EXCEPT !.gil = 0, !.pc[t] = "load"]

\* Py_END_ALLOW_THREADS that goes on without the lock
Py_END_ALLOW_THREADS_NoLock(p, t) == [p EXCEPT !.pc[t] = "check"]

\* Py_END_ALLOW_THREADS: the lock is taken again
Py_END_ALLOW_THREADS(p, t) == [p EXCEPT !.gil = t, !.pc[t] = "check"]

PyStep(p) ==
    /\ py' = p
    /\ UNCHANGED <<poss, sltr_call, txn, staged_call, result_map, queries, pkg_excludes,
                   pkg_includes, considered, considered_uptodate, crashed, goal, run,
                   gsack>>

\* a thread calls a method of the sack; it waits while another thread
\* holds the lock
PyCall ==
    \E t \in Threads, m \in SackMethods :
        /\ py.pc[t] = "idle"
        /\ py.gil = 0
        /\ PyStep(PyEnter(py, t, m))

\* load_system_repo, enable_repo, disable_repo, evr_cmp, _knows: the
\* arguments are converted, the library is called and the result or the
\* exception is returned, all with the lock held
PyMethod ==
    \E t \in Threads, r \in {"value", "exception"} :
        /\ py.pc[t] = "entered"
        /\ py.method[t] \in SackMethods \ {"load_repo", "add_excludes", "add_includes"}
        /\ PyStep(PyReturn(py, t, r))

\* add_excludes and add_includes: pyseq_to_packageset gives NULL and the
\* method returns NULL, or hif_sack_add_excludes / hif_sack_add_includes is
\* called with the packageset
PyAddExcludes ==
    \E t \in Threads, pset \in ExcludeSets \cup {{}} :
        /\ py.pc[t] = "entered"
        /\ py.method[t] \in {"add_excludes", "add_includes"}
        /\ py' = PyReturn(py, t, IF pset = {} THEN "exception" ELSE "value")
        /\ pkg_excludes' = IF py.method[t] = "add_excludes"
                           THEN pkg_excludes \cup pset ELSE pkg_excludes
        /\ pkg_includes' = IF py.method[t] = "add_includes"
                           THEN pkg_includes \cup pset ELSE pkg_includes
        /\ considered_uptodate' = IF pset = {} THEN considered_uptodate ELSE FALSE
        /\ UNCHANGED <<poss, sltr_call, txn, staged_call, result_map, queries,
                       considered, crashed, goal, run, gsack>>

\* load_repo: the arguments do not parse and the method returns 0
PyLoadRepoBadArgs ==
    \E t \in Threads :
        /\ py.pc[t] = "entered"
        /\ py.method[t] = "load_repo"
        /\ PyStep(PyReturn(py, t, "exception"))

\* load_repo: the flags are set and the lock is released
PyLoadRepoBegin ==
    \E t \in Threads :
        /\ py.pc[t] = "entered"
        /\ py.method[t] = "load_repo"
        /\ PyStep(Py_BEGIN_ALLOW_THREADS(py, t))

\* hif_sack_load_repo returns TRUE or FALSE into ret
HifSackLoadRepo ==
    \E t \in Threads, ret \in {"TRUE", "FALSE"} :
        /\ py.pc[t] = "load"
        /\ PyStep([py EXCEPT !.pc[t] = "loaded", !.ret[t] = ret])

\* load_repo: Py_END_ALLOW_THREADS waits for the lock
PyLoadRepoEnd ==
    \E t \in Threads :
        /\ py.pc[t] = "loaded"
        /\ py.gil = 0
        /\ PyStep(Py_END_ALLOW_THREADS(py, t))

\* load_repo: ret is looked at, and op_error2exc raises or None is returned
PyLoadRepoReturn ==
    \E t \in Threads :
        /\ py.pc[t] = "check"
        /\ PyStep(PyReturn(py, t, IF py.ret[t] = "FALSE" THEN "exception"
                                                         ELSE "value"))

NextPy ==
    \/ PyCall
    \/ PyMethod
    \/ PyAddExcludes
    \/ PyLoadRepoBadArgs
    \/ PyLoadRepoBegin
    \/ HifSackLoadRepo
    \/ PyLoadRepoEnd
    \/ PyLoadRepoReturn

SpecPy == Init /\ [][NextPy]_vars

\* thread t is in a method of the sack
InSackMethod(t) == py.pc[t] # "idle"

\* thread t is in load_repo between the release of the lock and its return
InLoad(t) == py.pc[t] \in {"load", "loaded"}

\* C40: a thread in a method of the sack is without the interpreter lock
\* only in load_repo between Py_BEGIN_ALLOW_THREADS and
\* Py_END_ALLOW_THREADS; it holds the lock when the result of the load is
\* looked at, after a load that succeeded and after one that failed; in
\* every other method it holds the lock from the call to the return; two
\* threads are in methods of the sack at once only while one of them is in
\* the load of load_repo
C40_LockReleasedOnlyAroundLoad ==
    /\ \A t \in Threads :
          /\ InSackMethod(t) /\ ~InLoad(t) => py.gil = t
          /\ InLoad(t) => py.method[t] = "load_repo" /\ py.gil # t
          /\ py.pc[t] = "check" => py.gil = t /\ py.ret[t] \in {"TRUE", "FALSE"}
          /\ InSackMethod(t) /\ py.method[t] # "load_repo" => py.gil = t
    /\ \A t1, t2 \in Threads :
          t1 # t2 /\ InSackMethod(t1) /\ InSackMethod(t2) => InLoad(t1) \/ InLoad(t2)

\* thread 1 holds the lock at the test of a load that failed while thread 2
\* is inside the load
C40_Witness ==
    /\ py.pc[1] = "check"
    /\ py.ret[1] = "FALSE"
    /\ py.gil = 1
    /\ py.pc[2] = "load"

====
